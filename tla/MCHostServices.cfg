SPECIFICATION Spec
CONSTANTS
  s1 = s1
  s2 = s2
  Modules = {"vpn", "plugin"}
  Remote = {"plugin"}
  HasSchema = {"vpn"}
  Secrets = {s1, s2}
  NoSecret = NoSecret
  Garbled = Garbled
  MaxKeys = 2
  Edited = {"vpn"}
  MaxMishaps = 2
SYMMETRY SecretSymmetry
CHECK_DEADLOCK FALSE
INVARIANTS
  KeyFitsItems
  SecretsKept
