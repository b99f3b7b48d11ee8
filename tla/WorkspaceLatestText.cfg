\* A document and its import are edited.
CONSTANTS
    root = root
    dep = dep
    manifest = manifest
    Docs = {root, dep}
    Manifests = {}
    Imports <- RootImportsDep
    Handlers = {h1}
    Editable = {root, dep}
    Watched = {}
    MaxRevision = 3
    MaxGeneration = 3
    MaxTimeouts = 0
SPECIFICATION Spec
INVARIANT LatestTextAnalysed
CHECK_DEADLOCK FALSE
