SPECIFICATION FairSpec
INVARIANTS
  WholeUnlessRaced
  BindingSettles
PROPERTIES
  BoundOnce
  ListenerReleased
  ListenerServed
