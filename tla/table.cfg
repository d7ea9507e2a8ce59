CONSTANTS
  NoName = NoName
  Nobody = Nobody
  Addr = {a1, a2, a3}
  Name = {n1}
  Strays = {a3}
  MaxUserNum = 2
  MaxPipes = 2
SPECIFICATION Spec
INVARIANTS TypeOK UsersUnique PipeEndsAlive PipeFilesDistinct TakenAsMade
PROPERTIES SlotKept ImplementsDirectory
SYMMETRY Interchangeable
