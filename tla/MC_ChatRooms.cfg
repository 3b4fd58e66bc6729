CONSTANTS
  Client = {c1, c2, c3}
  FewClients = {d1, d2}
  UserName = {n1}
  User = {u1, u2}
  Ulist = Ulist
  Course <- Courses
  Main = Main
  Nil = Nil
  Admin = Admin
  MaxPut = 3
  Shown = 2
  BUF_SIZE = 2
  MaxSent = 3
  FD_SETSIZE = 2
  MaxCame = 4
  MaxLines = 2
  Usage <- Usages
SPECIFICATION Spec
SYMMETRY Symmetry
CHECK_DEADLOCK FALSE
INVARIANTS
  WalksReach
  UsersKept
  InOrder
  NothingStranded
  EveryoneGetsIt
  RightNames
