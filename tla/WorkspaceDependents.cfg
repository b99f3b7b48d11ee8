\* A document, an import that is edited, saved, closed and changed on disk, and a
\* manifest that changes on disk; one pass may time out.
CONSTANTS
    root = root
    dep = dep
    manifest = manifest
    Docs = {root, dep, manifest}
    Manifests = {manifest}
    Imports <- RootImportsBoth
    Handlers = {h1}
    Editable = {dep}
    Watched = {dep, manifest}
    MaxRevision = 3
    MaxGeneration = 3
    MaxTimeouts = 1
SPECIFICATION Spec
INVARIANTS TypeOK SettledIsCurrent ClosedForgotten
PROPERTY StoredNeverRegresses
CHECK_DEADLOCK FALSE
