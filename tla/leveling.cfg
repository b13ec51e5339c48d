CONSTANTS
    w1 = w1
    w2 = w2
    road = road
    plant = plant
    Projects = {road, plant}
    Users = {1, 2}
    Plans = {1, 2}
    Rules = {1, 2}
    Deployments <- MCDeployments
SPECIFICATION Spec
CHECK_DEADLOCK FALSE
INVARIANTS ExecutorsCounted PlansSound
PROPERTIES ResultsReliable
