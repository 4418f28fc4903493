SPECIFICATION FairPITRSpec
CONSTANTS
    MaxLog = 2
    Threads = 2
    MaxErrors = 1
 
PROPERTIES LogsBecomeRecoverable
