SPECIFICATION ListSpec
CONSTANTS
    Albums <- MCAlbums
    AllSongs = 0
    Views <- MCViews
    Ways = 5
    Rows = 3
    Thm <- MCThm
    Art <- MCArt
    Absent = absent
    Bad = bad
    Good = good
    Shaky <- MCShaky
    Watched <- MCWatched

    
PROPERTIES
    VisibleKept
    Resolves
