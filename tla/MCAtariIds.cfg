\* the file systems of atr_fs2pid with distinct ids, one in no entry, the
\* lengths around GEM_MAX, and entries as other Atari tools write them
CONSTANTS
    FsTypes = {"ext2", "fat16", "fat32", "hfs", "linux-swap", "ntfs", "btrfs"}
    NoFs = NoFs
    Lengths = {1, 65535, 65536}
    RawIds = {"GEM", "BGM", "LNX", "UNX", "MIX", "XGM"}
    RawFlags = {0, 16, 128}
SPECIFICATION Spec
INVARIANT IdsTypeOK
INVARIANT NamedEntriesProbeable
PROPERTY ReopenKeepsEntries
