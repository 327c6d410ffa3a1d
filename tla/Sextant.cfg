\* Started on the fleet's list; two cluster screens, two drill-downs at once.
SPECIFICATION Spec
CONSTANTS
    Direct = FALSE
    Nothing = Nothing
    MaxNews = 1
    MaxScreen = 2
    MaxRead = 2
    MaxDrill = 2
INVARIANTS
    SingleWait

    
