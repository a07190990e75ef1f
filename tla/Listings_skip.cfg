SPECIFICATION ListingsSpec
CONSTANTS
 Rows={1,2,3}
 Lists={"comments"}
 Page=1
 MaxClock=2
 MaxCopied=1
INVARIANTS ShowsAll
CHECK_DEADLOCK FALSE
