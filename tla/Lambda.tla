------------------------------- MODULE Lambda -------------------------------
(***************************************************************************)
(* Lambda functions and their invocations: the helpers of server.py behind *)
(* routes/aws_lambda.py and the S3 notifications.                          *)
(*                                                                         *)
(* Requests run on the event loop, one at a time: loop is the one that has *)
(* it.  An invocation of type Event is accepted and run by a thread of its *)
(* own, any other runs while its request keeps the loop.  The records of   *)
(* the functions are kept in the state; the code that is run is a file     *)
(* named for the function and the module of its handler, and nothing       *)
(* removes it.  A thread that finds it missing writes it.  A write may     *)
(* fail: the handler names a directory that is not there, or the disk is   *)
(* full, and then the file is left incomplete.  One space is modelled; in  *)
(* the program functions of one name in two spaces share the file.         *)
(*                                                                         *)
(* Left out: versions and layers, permissions (refused calls change        *)
(* nothing), the limit of 200 listed invocations, payloads and output,     *)
(* restarts of the simulator, which end the threads.                       *)
(***************************************************************************)
EXTENDS Naturals

CONSTANTS
    Names,         \* names of functions
    Handlers,      \* modules of handlers
    MaxFunctions,  \* bound: functions created
    MaxCodes,      \* bound: codes uploaded
    MaxCalls,      \* bound: invocations
    MaxFailures    \* bound: writes of a file or of the state that fail

ASSUME LambdaAssumption ==
    /\ MaxFunctions \in Nat /\ MaxCodes \in Nat /\ MaxCalls \in Nat
    /\ MaxFailures \in Nat

None == 0
Functions == 1 .. MaxFunctions
Codes == 1 .. MaxCodes
Calls == 1 .. MaxCalls
\* What a file holds: nothing, a code or part of one.
Torn == MaxCodes + 1
Contents == 0 .. Torn
\* Where a thread that runs a call is; "read" and "write" only if the file was missing.
Steps == {"new", "check", "read", "write", "run", "over"}

VARIABLES
    named,     \* named[n]: the function record of that name
    function,  \* the records, deleted ones included: code, handler and name
    file,      \* file[n][h]: the code in lambda_functions/n/h.py
    loop,      \* what the event loop waits for: a file, a call or nothing
    call,      \* the invocations
    failures

lvars == <<named, function, file, loop, call, failures>>

Free == [kind |-> "idle", id |-> None]
Record == [name : Names, code : Codes, handler : Handlers]
Invocation == [of : Functions \cup {None}, event : BOOLEAN, at : Steps,
               handler : Handlers \cup {None}, held : Codes \cup {None},
               told : BOOLEAN,
               status : {"none", "accepted", "success", "error"}]
NewCall == [of |-> None, event |-> FALSE, at |-> "new", handler |-> None, held |-> None,
            told |-> FALSE, status |-> "none"]

LTypeOK ==
    /\ named \in [Names -> Functions \cup {None}]
    /\ DOMAIN function \subseteq Functions /\ \A f \in DOMAIN function : function[f] \in Record
    /\ file \in [Names -> [Handlers -> Contents]]
    /\ loop \in [kind : {"idle", "file", "call"}, id : Nat]
    /\ call \in [Calls -> Invocation]
    /\ failures \in 0 .. MaxFailures

LInit ==
    /\ named = [n \in Names |-> None]
    /\ function = <<>>
    /\ file = [n \in Names |-> [h \in Handlers |-> None]]
    /\ loop = Free
    /\ call = [c \in Calls |-> NewCall]
    /\ failures = 0

\* The next record, code or call.
Lowest(S) == {x \in S : \A y \in S : x <= y}
Unused == {c \in Calls : call[c].at = "new"}
Created == DOMAIN function
\* Codes are numbered as they are uploaded.
Uploaded == ({function[f].code : f \in Created} \cup {call[c].held : c \in Calls}
             \cup {file[n][h] : n \in Names, h \in Handlers}) \cap Codes
NewCodes == {c \in Codes : \A d \in Uploaded : d < c}

Fail == failures < MaxFailures /\ failures' = failures + 1
Write(n, h, c) == file' = [file EXCEPT ![n][h] = c]
\* The file is not opened, or not written to the end.
WriteFails(n, h) == Fail /\ (UNCHANGED file \/ Write(n, h, Torn))

-----------------------------------------------------------------------------
(* Requests on functions. *)
Create(n, h) ==
    /\ loop = Free /\ named[n] = None
    /\ \E f \in Lowest(Functions \ Created), c \in Lowest(NewCodes) :
          /\ function' = [g \in Created \cup {f} |->
                IF g = f THEN [name |-> n, code |-> c, handler |-> h] ELSE function[g]]
          /\ Write(n, h, c)
          /\ named' = [named EXCEPT ![n] = f]
    /\ UNCHANGED <<loop, call, failures>>

\* The file comes before the record.
CreateFails(n, h) ==
    /\ loop = Free /\ named[n] = None
    /\ WriteFails(n, h)
    /\ UNCHANGED <<named, function, loop, call>>

\* The record changes, then the file is written: WriteFile.
UpdateCode(n) ==
    /\ loop = Free /\ named[n] # None
    /\ \E c \in Lowest(NewCodes) : function' = [function EXCEPT ![named[n]].code = c]
    /\ loop' = [kind |-> "file", id |-> named[n]]
    /\ UNCHANGED <<named, file, call, failures>>

UpdateConfiguration(n, h) ==
    /\ loop = Free /\ named[n] # None
    /\ function' = [function EXCEPT ![named[n]].handler = h]
    /\ loop' = [kind |-> "file", id |-> named[n]]
    /\ UNCHANGED <<named, file, call, failures>>

\* Wrong on purpose: a file that is there is kept, as before a run.
Wrong_WriteFile ==
    /\ loop.kind = "file"
    /\ LET f == function[loop.id] IN
          IF file[f.name][f.handler] = None THEN Write(f.name, f.handler, f.code)
                                            ELSE UNCHANGED file
    /\ loop' = Free
    /\ UNCHANGED <<named, function, call, failures>>

WriteFile ==
    /\ loop.kind = "file"
    /\ LET f == function[loop.id] IN Write(f.name, f.handler, f.code)
    /\ loop' = Free
    /\ UNCHANGED <<named, function, call, failures>>

\* The client gets an error; the record keeps the change.
WriteFileFails ==
    /\ loop.kind = "file"
    /\ LET f == function[loop.id] IN WriteFails(f.name, f.handler)
    /\ loop' = Free
    /\ UNCHANGED <<named, function, call>>

DeleteFunction(n) ==
    /\ loop = Free /\ named[n] # None
    /\ named' = [named EXCEPT ![n] = None]
    /\ UNCHANGED <<function, file, loop, call, failures>>

-----------------------------------------------------------------------------
(* Invocations. *)
Invoke(n, event) ==
    /\ loop = Free /\ named[n] # None
    /\ \E c \in Lowest(Unused) :
          /\ call' = [call EXCEPT ![c] = [@ EXCEPT !.of = named[n], !.event = event,
                          !.at = "check", !.told = event,
                          !.status = IF event THEN "accepted" ELSE "none"]]
          /\ loop' = IF event THEN Free ELSE [kind |-> "call", id |-> c]
    /\ UNCHANGED <<named, function, file, failures>>

\* The accepted call is listed, but not saved: the client gets an error and no
\* thread is started.
InvokeFails(n) ==
    /\ loop = Free /\ named[n] # None /\ Fail
    /\ \E c \in Lowest(Unused) :
          call' = [call EXCEPT ![c] = [@ EXCEPT !.at = "over", !.status = "accepted"]]
    /\ UNCHANGED <<named, function, file, loop>>

Of(c) == function[call[c].of]
Over(c, status) ==
    call' = [call EXCEPT ![c] = [NewCall EXCEPT !.at = "over", !.told = call[c].told,
                                                !.status = status]]

\* The handler is read; if its file is there, it is run.
Check(c) ==
    /\ call[c].at = "check"
    /\ LET f == Of(c) IN
          call' = [call EXCEPT ![c].at =
                      IF file[f.name][f.handler] = None THEN "read" ELSE "run"]
    /\ UNCHANGED <<named, function, file, loop, failures>>

\* To write the file that is missing handler and code are read again.
ReadMissing(c) ==
    /\ call[c].at = "read"
    /\ call' = [call EXCEPT ![c] = [@ EXCEPT !.at = "write", !.handler = Of(c).handler,
                                             !.held = Of(c).code]]
    /\ UNCHANGED <<named, function, file, loop, failures>>

WriteMissing(c) ==
    /\ call[c].at = "write"
    /\ Write(Of(c).name, call[c].handler, call[c].held)
    /\ call' = [call EXCEPT ![c] = [@ EXCEPT !.at = "run", !.handler = None, !.held = None]]
    /\ UNCHANGED <<named, function, loop, failures>>

\* An error of the call, or of the request.
MissingFails(c) ==
    /\ call[c].at = "write"
    /\ WriteFails(Of(c).name, call[c].handler)
    /\ Over(c, IF call[c].event THEN "error" ELSE "none")
    /\ loop' = IF call[c].event THEN loop ELSE Free
    /\ UNCHANGED <<named, function>>

\* Wrong on purpose: a run that raises (a timeout) leaves the record as it is.
Wrong_EndEvent(c, raises) ==
    /\ call[c].at = "run" /\ call[c].event
    /\ \E ok \in {"success", "error"} : Over(c, IF raises THEN call[c].status ELSE ok)
    /\ UNCHANGED <<named, function, file, loop, failures>>

\* A run, of whatever is in the file, that raises is an error like one that fails,
\* and so is one whose outcome is not saved.
EndEvent(c, raises) ==
    /\ call[c].at = "run" /\ call[c].event
    /\ \E ok \in {"success", "error"} : Over(c, IF raises THEN "error" ELSE ok)
    /\ UNCHANGED <<named, function, file, loop, failures>>

\* The outcome goes to the client, as an error if the run or its save raises.
EndRequest(c) ==
    /\ call[c].at = "run" /\ ~call[c].event
    /\ Over(c, "none")
    /\ loop' = Free
    /\ UNCHANGED <<named, function, file, failures>>

-----------------------------------------------------------------------------
Request ==
    \/ \E n \in Names, h \in Handlers :
          Create(n, h) \/ CreateFails(n, h) \/ UpdateConfiguration(n, h)
    \/ \E n \in Names : UpdateCode(n) \/ DeleteFunction(n) \/ InvokeFails(n)
    \/ \E n \in Names, event \in BOOLEAN : Invoke(n, event)

Run(c) ==
    \/ Check(c) \/ ReadMissing(c) \/ WriteMissing(c) \/ MissingFails(c)
    \/ EndRequest(c) \/ \E raises \in BOOLEAN : EndEvent(c, raises)

LNext == Request \/ WriteFile \/ WriteFileFails \/ \E c \in Calls : Run(c)

LSpec == LInit /\ [][LNext]_lvars
\* Threads run; a handler ends or is ended by its timeout.
LFairness == WF_lvars(WriteFile \/ WriteFileFails) /\ \A c \in Calls : WF_lvars(Run(c))
LFairSpec == LSpec /\ LFairness

-----------------------------------------------------------------------------
(* Properties. *)
Serves(n) ==
    LET f == named[n] IN f # None /\ file[n][function[f].handler] = function[f].code

\* The event loop is about to write the file, or a thread that found it missing.
Writing(n) == loop.kind = "file" /\ loop.id = named[n]
Late(n) == \E c \in Calls : WriteMissing(c) /\ Of(c).name = n
Failed(n) == \/ WriteFileFails /\ loop.id = named[n]
             \/ \E c \in Calls : MissingFails(c) /\ Of(c).name = n

\* Between requests a function of the active space runs the code its record
\* shows: no creation, upload, change of configuration, deletion or call, of the
\* function, of another or of one of that name deleted since, ends with another
\* code in its file.  There are two exceptions: a thread that found the file missing
\* writes the code it then read, perhaps after a newer one; and a write of the file
\* fails, which the client, or the outcome of the call, is told.
ServedCode ==
    [][\A n \in Names :
          named'[n] # None /\ ~(Serves(n) \/ Writing(n))' /\ ~Late(n) /\ ~Failed(n)
             => named[n] # None /\ ~Serves(n) /\ ~Writing(n)]_lvars

\* An invocation whose client was told that it is accepted gets an outcome, whatever
\* becomes of its function and of the writes.
Settles == \A c \in Calls : call[c].told ~> call[c].status \in {"success", "error"}
=============================================================================
