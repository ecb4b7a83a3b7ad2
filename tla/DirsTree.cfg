\* Two processes building, walking and pruning a tree of directories d and
\* files f with the calls of syscall.c: every path names a directory where
\* the code needs one, and directories are never removed.
CONSTANTS
    p1 = p1
    p2 = p2
    Procs = {p1, p2}
    Names = {"d", "f"}
    Fds = {1}
    NSectors = 4
    RootEntries = 2
    ParentInUse = {TRUE}
    CreatePaths <- TreeCreate
    MkdirPaths <- TreeMkdir
    RemovePaths <- TreeRemove
    ChdirPaths <- TreeChdir
    OpenPaths <- TreeOpen
    NULL = NULL
    Dangling = Dangling
SPECIFICATION Spec
INVARIANTS TypeOK RefCountsExact OneNamePerInode NoLeak
