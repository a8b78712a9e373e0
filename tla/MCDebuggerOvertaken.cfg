SPECIFICATION Spec
CONSTANTS
 Thread = {e, g}
 Collector = {g}
 EventThread = {e, g}
 Jdwp = j
 NoThread = none
 MaxDebugSuspends = 1
 MaxCollections = 1
 Races = {"overtake"}
INVARIANT EventSuspendsFirst
