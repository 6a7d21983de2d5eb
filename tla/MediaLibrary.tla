---------------------------- MODULE MediaLibrary ----------------------------
(***************************************************************************)
(* The libraries a disc may come from: a file is a share, a library folder *)
(* of it, a title's folder, and what is in that one, so that the place of  *)
(* every disc is known by construction and what the player is told to open *)
(* (MediaPath) can be compared with it.                                    *)
(***************************************************************************)
EXTENDS MediaPath

CONSTANTS
    Shares,     \* the shares, and local folders
    Libraries,  \* the folders of a share that hold titles
    Titles,     \* a title's folder in its library
    Structures, \* what is in a disc structure, that makes the title's folder a disc
    Loose,      \* an index file without its structure does so as well
    Single,     \* images and single files, to be opened as they are
    Encoded,    \* components that Kodi encodes in a network path, and how
    Exported    \* the share the player lists first, as it exports it

Contents == Structures \union Loose \union Single
Library == Shares \X Libraries \X Titles \X Contents
PathOf(f) == f[1] \o f[2] \o f[3] \o f[4]

\* As Kodi has it: a network path is URL-encoded.
Encode(p) ==
    IF p[1] \in Hosts
    THEN [i \in DOMAIN p |-> IF p[i] \in DOMAIN Encoded THEN Encoded[p[i]] ELSE p[i]]
    ELSE p

\* Nothing of it is a disc structure's own name.
Plain(p) == \A i \in DOMAIN p : p[i] \notin DiscSegments

\* A library in its parts.
ASSUME LibraryParts ==
    /\ Shares \subseteq Seq(STRING) \ {<<>>}
    /\ Libraries \union Titles \subseteq Seq(STRING)
    /\ Contents \subseteq Seq(STRING) \ {<<>>}
    /\ \A s \in Shares : HasSharePath(s)
    /\ \A t \in Titles : Plain(t)

\* What is in a title's folder: a structure from its own name on, of which a Blu-ray
\* one is not in a DVD one; an index file; an image wherever it lies, or a file.
ASSUME ContentShapes ==
    /\ \A c \in Structures :
          /\ c[1] \in DiscSegments /\ c[Len(c)] \notin IsoNames
          /\ c[1] = "video_ts" => \A i \in DOMAIN c : c[i] # "bdmv"
    /\ \A c \in Loose : Len(c) = 1 /\ c[1] \in BdmvNames \ IsoNames /\ Plain(c)
    /\ \A c \in Single : c[Len(c)] \in IsoNames \/ (Plain(c) /\ c[Len(c)] \notin BdmvNames)

\* Kodi's encoding is undone by decoding: what looks encoded is encoded.
ASSUME EncodingShape ==
    /\ \A c \in DOMAIN Encoded : Encoded[c] \in DOMAIN Decoded /\ Decoded[Encoded[c]] = c
    /\ DOMAIN Encoded \intersect Hosts = {}
    /\ \A f \in Library : \A i \in DOMAIN PathOf(f) :
          PathOf(f)[i] \in DOMAIN Decoded => PathOf(f)[i] \in DOMAIN Encoded

\* No source of Kodi's that could map a file is broader than a share.
ASSUME SharesAreBroadest ==
    \A r \in Roots, s \in Shares :
        DecodeShare(r) # <<>> /\ HasSharePath(DecodeShare(r)) => ~IsStrictPrefix(DecodeShare(r), s)

\* The player lists nothing like a share, or Exported before anything else like one.
ASSUME ExportedFirst ==
    \A list \in ShareLists :
        IF Exported \in ToSet(list)
        THEN \E i \in DOMAIN list : /\ list[i] = Exported /\ Len(Exported) >= 3
                                    /\ \A j \in 1 .. i - 1 : Len(list[j]) < 3
        ELSE \A i \in DOMAIN list : Len(list[i]) < 3

-----------------------------------------------------------------------------
\* The folders and files this path may be in the library.
Places == {f \in Library : Encode(PathOf(f)) = file}

\* What is to be opened below the share: the title's folder, or the one file.
Wanted(f) == f[2] \o f[3] \o (IF f[4] \in Single THEN f[4] ELSE <<>>)

\* The export root that was typed, or else the one the player lists.
Root ==
    IF pathTo # <<>> THEN pathTo
    ELSE IF Exported \in ToSet(shares) THEN Exported ELSE <<>>

\* The share can be known: it was typed, or what was typed maps nothing and
\* Kodi has the share as a source that may be used.
ShareKnown(f) ==
    \/ typed = f[1]
    \/ autodetect /\ Encode(f[1]) \in sources /\ ~Below(PathOf(f), typed)

\* When the share is known, a disc that is played is the disc that was asked
\* for: the export root and the title's own folder, or its image, below it,
\* whatever other sources there are (handoff.play, detect_path_from).
OpensTheDisc ==
    pc = "play" => \A f \in Places :
        ShareKnown(f) /\ Plain(f[2]) =>
            mount \o name = Root \o Wanted(f)

\* When the share is known, the handoff is not refused for its path: a stale
\* typed prefix, a nested source, or a source that is the file itself does not
\* strand it (handoff.play, "consult Kodi's OWN configured sources").
KnownShareMaps == pc = "refused" => \A f \in Places : ~ShareKnown(f)
=============================================================================
