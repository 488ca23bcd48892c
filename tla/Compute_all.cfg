\* An EC2 and a Compute Engine instance, up to two launch threads and two requests,
\* commands of LXD and saves that fail, one restart.
SPECIFICATION Spec
CONSTANTS
    ec2 = ec2
    gce = gce
    n1 = n1
    n2 = n2
    t1 = t1
    t2 = t2
    Instances = {ec2, gce}
    Gcp = {gce}
    Threads = {n1, n2}
    Requests = {t1, t2}
    NoInstance = NoInstance
    Faulty = TRUE
    MaxRestarts = 1
    Loads <- MCLoads
INVARIANTS
    NoOrphan
PROPERTIES
    TerminatedStays
    
CHECK_DEADLOCK FALSE
