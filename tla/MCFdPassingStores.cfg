\* Both bulk stores, each with the application of that store.
CONSTANTS
  c1 = c1
  c2 = c2
  a3 = a3
  a4 = a4
SYMMETRY Symmetry
VIEW StoresView
SPECIFICATION Spec
INVARIANT StoresTypeOK
INVARIANT StoresFdTableFaithful
INVARIANT StoresQuiescentAgreement
