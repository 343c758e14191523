SPECIFICATION Spec
CONSTANTS
  Workspaces = {w1, w2}
  Accounts = {a1}
  Tabs = {t1, t2}
  None = None
SYMMETRY Symmetry
INVARIANTS TypeOK WorkspacesApart LastWorkspaceFound
PROPERTIES TokensKept
