CONSTANTS
  Sources <- MCSources
  Rows <- MCRows
  NamedAs <- MCNamedAs
  Frozen <- MCFrozen
  Revisions <- MCRevisions
SPECIFICATION Spec
INVARIANTS StoreIsKeyed SlicesAreImmutable RefusalLeavesFile FrozenIsReproducible ExportIsFaithful
