CONSTANTS
  SeqSpace = 4
  WordSpace = 8
  Caller <- MCCaller
  Forwarded <- MCForwarded
  Contact <- MCContact
  Local <- MCLocal
  Shape <- MCShape
  OwnEthernet <- MCOwnEthernet
  RouterEthernet <- MCRouterEthernet
  Damage <- MCDamage
SPECIFICATION WireSpec
INVARIANTS
  InStep
  UnwrapIsClosest
  OneConnection
  AnswersReachCaller
  DamageIsNoticed
