\* Two applications, one of them with a reverse-DNS name, and an icon given by its path; a
\* cache of two.  The buffer wraps within three characters.
SPECIFICATION Spec
CONSTANTS
    Roots = {"org", "gnome", "clocks"}
    Ids <- MCIds
    Direct <- MCDirect
    Dirs = 2
    Places = 2
    MaxCached = 2
    MaxFiles = 2
    BufferBits = 16
INVARIANTS
    TypeOK
    CacheOwnsDrawn
    BestFile
