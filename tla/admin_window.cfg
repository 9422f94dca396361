SPECIFICATION Spec
CONSTANTS
    Home = "home"
    Page = {"home", "dict", "role"}
    Roles = {o1, o2}
    Names = {n1, n2}
    MaxDict = 2
    MaxLoads = 2
    MaxTasks = 1
INVARIANTS TypeOK TabsAgree LogsAreAboutTheirRow
PROPERTIES RemovesOnlyWhatWasShown RefusedChangesNothing
SYMMETRY Symmetric
