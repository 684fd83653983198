\* One publish among three clients that subscribe and leave.
SPECIFICATION Spec
CONSTANTS
  c1 = c1
  c2 = c2
  c3 = c3
  p1 = p1
  e = e
  g = g
  x = x
  None = None
  Client = {c1, c2, c3}
  Key = {e, g, x}
  Glob = {g, x}
  Publish = {p1}
  Offers <- MCOffers
  Event <- MCEvent
  Match <- MCMatch
INVARIANTS
  MapsAgree
  NoStranger
  StableDelivery
PROPERTIES
  PublishEnds
