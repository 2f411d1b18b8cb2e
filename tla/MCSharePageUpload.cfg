SPECIFICATION Spec
CONSTANTS
    Share = {writeAll, dropzone}
    Browsable = {writeAll}
    Uploadable = {writeAll, dropzone}
    Folder = {root, sub}
    File = {file}
    Root = root
    FolderOf <- MCFolderOf
    MaxRuns = 3
    MaxUploads = 1
    MaxFiles = 2
    MaxReloads = 1
    Home = Home
    None = None
    writeAll = writeAll
    dropzone = dropzone
    root = root
    sub = sub
    file = file
INVARIANT UploadsWhereBrowsed
CHECK_DEADLOCK FALSE
