\* Three connections, one of them from a reused address and served by
\* register_service; two ordinary keys and the key of the built-in service.
SPECIFICATION Spec
CONSTANTS
  c1 = c1
  c2 = c2
  c3 = c3
  a1 = a1
  a2 = a2
  k1 = k1
  k2 = k2
  kc = kc
  None = None
  Client = {c1, c2, c3}
  Address = {a1, a2}
  Key = {k1, k2, kc}
  Addr <- MCAddr
  Offers <- MCOffers
  OnBehalf = {c3}
  BuiltinKey = {kc}
INVARIANT
  AnnouncedIsRouted
