\* Two statements of every kind, in every order, with or without the type of Magisk in
\* the policy that is loaded; or three updates of five partitions.
SPECIFICATION SePolicySpec
CONSTANTS
  Names <- mc_Names
  BaseAttrs <- mc_BaseAttrs
  BaseTypes = {{"init"}, {"init", "magisk"}}
  ClassPerms <- mc_ClassPerms
  TypeNames <- mc_TypeNames
  Paths <- mc_Paths
  Contexts = {"ok"}
  Size = 8
  Statements <- mc_Statements
  MaxStatements = 2
  MaxUpdates = 3
CHECK_DEADLOCK FALSE
INVARIANTS MembersComplete 
  
