SPECIFICATION Spec
CONSTANTS
    Files <- MCFiles
    Roots <- MCRoots
    Exports <- MCExports
    ShareLists <- MCShareLists
    Hosts <- MCHosts
    Decoded <- MCDecoded
    IsoNames <- MCIsoNames
    BdmvNames <- MCBdmvNames
    Shares <- MCShares
    Libraries <- MCLibraries
    Titles <- MCTitles
    Structures <- MCStructures
    Loose <- MCLoose
    Single <- MCSingle
    Encoded <- MCEncoded
    Exported <- MCExported
INVARIANT RoutedIsTaken
INVARIANT NeverMountsAFile
INVARIANT OpensTheDisc
INVARIANT KnownShareMaps
\* A path that is taken ends at "play"; Kodi keeps the others.
CHECK_DEADLOCK FALSE
