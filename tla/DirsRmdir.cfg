\* rmdir of /d while a process has /d as its working directory: dir_remove
\* closes the directory inode twice (dir_close (target), then inode_close
\* at done).
CONSTANTS
    p1 = p1
    p2 = p2
    Procs = {p1, p2}
    Names = {"d", "f"}
    Fds = {1}
    NSectors = 4
    RootEntries = 2
    ParentInUse = {TRUE}
    CreatePaths <- TreeCreate
    MkdirPaths <- TreeMkdir
    RemovePaths <- RmdirRemove
    ChdirPaths <- TreeChdir
    OpenPaths <- TreeOpen
    NULL = NULL
    Dangling = Dangling
SPECIFICATION Spec
INVARIANT RefCountsExact
