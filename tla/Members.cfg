SPECIFICATION Spec
CONSTANTS
    RoleSlots = {s1}
    UserSlots = {s2}
    UserIds = {u1, u2}
    PolicyIds = {p1}
    RoleIds = {r1}
    Names = {"a", "b"}
    Bodies <- MCBodies
    Paths <- MCPaths
    Logins = {"b"}
    Failing = {"preload", "getRole", "addRole", "modifyRole", "translate", "getUser", "updateUser", "answerUser", "user.roles"}
SYMMETRY Symmetry
VIEW Pending
INVARIANTS TypeOK
PROPERTIES GivenAsNamed AnsweredAsBorne UndisturbedAnswers UpdateAnswersItsUser
CHECK_DEADLOCK FALSE
