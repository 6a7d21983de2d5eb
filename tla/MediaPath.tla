----------------------------- MODULE MediaPath -----------------------------
(***************************************************************************)
(* From the path Kodi would play to the folder the player mounts and the   *)
(* name it opens: the routing rules and the gate (detector), the split at  *)
(* the share root, typed or taken from Kodi's own sources (oppo_http), the *)
(* disc folder, and the mount folder (handoff.play).  A path is the        *)
(* sequence of its components; the first one is the host of a network      *)
(* path.  Letter case, slashes at the end and doubled ones are left out.   *)
(***************************************************************************)
EXTENDS Integers, SequencesExt

CONSTANTS
    Files,      \* the paths Kodi may hand over
    Roots,      \* what may be typed as path_from or configured in Kodi as a source
    Exports,    \* what may be typed as path_to; <<>> is blank
    ShareLists, \* what the player may answer about its shares: the path-like runs in it
    Hosts,      \* the components that are hosts of nfs:// and smb:// paths
    Decoded,    \* URL-encoded components and what they stand for
    IsoNames, BdmvNames  \* components that end in .iso, in .bdmv

DiscSegments == {"bdmv", "video_ts"}

\* Kodi plays no empty path, an empty component ends in nothing, and decoding keeps how
\* a component ends and what has nothing to decode in it.
ASSUME PathConstants ==
    /\ Files \subseteq Seq(STRING) \ {<<>>}
    /\ Roots \union Exports \subseteq Seq(STRING)
    /\ ShareLists \subseteq Seq(Seq(STRING))
    /\ "" \notin IsoNames \union BdmvNames
    /\ \A c \in DOMAIN Decoded :
          /\ Decoded[c] \in STRING
          /\ c \in IsoNames => Decoded[c] \in IsoNames
          /\ c \in BdmvNames => Decoded[c] \in BdmvNames
          /\ c \in DiscSegments => Decoded[c] = c

VARIABLES
    file, typed, sources, pathTo, shares, autodetect,  \* what is there when the disc is started
    pc,     \* the stage the path has reached
    from,   \* the path_from that is used
    rel,    \* the file below it
    kind,   \* "disc", "iso" or "file"
    mount, name  \* the folder to mount, and what is opened in it

given == <<file, typed, sources, pathTo, shares, autodetect>>
pathVars == <<given, pc, from, rel, kind, mount, name>>

DecodeShare(p) ==
    IF p # <<>> /\ p[1] \in Hosts
    THEN [i \in DOMAIN p |-> IF p[i] \in DOMAIN Decoded THEN Decoded[p[i]] ELSE p[i]]
    ELSE p

\* The rule of split_share_relative and detect_path_from: strictly inside, and
\* the prefix ends where a component ends.
Below(text, prefix) == prefix # <<>> /\ IsStrictPrefix(prefix, text)

After(text, prefix) == SubSeq(text, Len(prefix) + 1, Len(text))

\* A share is more than a host.
HasSharePath(prefix) == prefix[1] \in Hosts => Len(prefix) > 1

Candidates(text, srcs) ==
    {p \in {DecodeShare(s) : s \in srcs} : p # <<>> /\ HasSharePath(p) /\ Below(text, p)}

\* Bug to catch: the deepest source wins.
DetectPathFrom_Deepest(text, srcs) ==
    {p \in Candidates(text, srcs) : \A q \in Candidates(text, srcs) : Len(q) <= Len(p)}

\* detect_path_from: the broadest source that maps the file, or none.
DetectPathFrom(text, srcs) ==
    {p \in Candidates(text, srcs) : \A q \in Candidates(text, srcs) : Len(p) <= Len(q)}

Marks(p, seg) == {i \in 1 .. Len(p) - 1 : p[i] = seg}

\* _disc_marker_index: the first bdmv directory, or else the first video_ts one.
Markers(p) == IF Marks(p, "bdmv") # {} THEN Marks(p, "bdmv") ELSE Marks(p, "video_ts")
DiscMarkerIndex(p) == CHOOSE i \in Markers(p) : \A j \in Markers(p) : i <= j

\* Bug to catch: the DVD folders are forgotten by the classifier.
IsDiscPath_BluRayOnly(p) == p # <<>> /\ (Last(p) \in BdmvNames \/ Marks(p, "bdmv") # {})

IsIso(p) == p # <<>> /\ Last(p) \in IsoNames
IsDiscPath(p) == p # <<>> /\ (Last(p) \in BdmvNames \/ Markers(p) # {})

\* A path with a slash at its end has an empty last component.
Slash(p) == Append(p, "")

\* Bug to catch: a loose index file stands for its own folder.
DiscFolder_KeepsLeaf(p) ==
    IF Markers(p) # {} THEN SubSeq(p, 1, DiscMarkerIndex(p) - 1) ELSE SubSeq(p, 1, Len(p) - 1)

\* disc_folder of a path with a slash at its end: what contains the disc
\* structure, or the loose index file.
DiscFolder(p) ==
    IF Markers(p) # {} THEN SubSeq(p, 1, DiscMarkerIndex(p) - 1) ELSE SubSeq(p, 1, Len(p) - 2)

\* Kodi's reading of PCF_RULES, on the path as Kodi has it.
PcfRoutes(p) ==
    \/ Last(p) \in IsoNames \union BdmvNames
    \/ \E i \in 1 .. Len(p) - 1 : p[i] \in DiscSegments

\* is_handoff_target, in the external player.
IsHandoffTarget(p) == IsIso(DecodeShare(p)) \/ IsDiscPath(DecodeShare(p))

Init ==
    /\ file \in Files
    /\ typed \in Roots \union {<<>>}
    /\ sources \in SUBSET Roots
    /\ pathTo \in Exports /\ shares \in ShareLists
    /\ autodetect \in BOOLEAN
    /\ pc = "kodi"
    /\ from = <<>> /\ rel = <<>> /\ kind = "none" /\ mount = <<>> /\ name = <<>>

\* cmd_detectpath: a button of the settings makes one of Kodi's sources, as Kodi
\* has it, the typed prefix.
DetectPath ==
    /\ pc = "kodi"
    /\ \E s \in sources : typed' = s
    /\ UNCHANGED <<file, sources, pathTo, shares, autodetect, pc, from, rel, kind, mount, name>>

\* Kodi starts the external player, whose gate agrees or not.
Route ==
    /\ pc = "kodi" /\ PcfRoutes(file)
    /\ pc' = IF IsHandoffTarget(file) THEN "split" ELSE "declined"
    /\ UNCHANGED <<given, from, rel, kind, mount, name>>

\* split_share_relative with the given prefix: it is used when it maps the file.
Split(prefix) ==
    /\ Below(DecodeShare(file), prefix)
    /\ from' = prefix
    /\ rel' = After(DecodeShare(file), prefix)
    /\ pc' = "locate"

\* Bug to catch: a typed prefix that does not map ends the handoff.
SplitTyped_Only ==
    /\ pc = "split"
    /\ \/ Split(typed)
       \/ /\ ~Below(DecodeShare(file), typed)
          /\ pc' = IF typed = <<>> THEN "ask" ELSE "refused"
          /\ UNCHANGED <<from, rel>>
    /\ UNCHANGED <<given, kind, mount, name>>

SplitTyped ==
    /\ pc = "split"
    /\ \/ Split(typed)
       \/ ~Below(DecodeShare(file), typed) /\ pc' = "ask" /\ UNCHANGED <<from, rel>>
    /\ UNCHANGED <<given, kind, mount, name>>

\* Kodi's own sources are asked when the typed prefix does not map; Kodi may not answer.
AskKodi ==
    /\ pc = "ask"
    /\ \/ autodetect /\ \E p \in DetectPathFrom(DecodeShare(file), sources) : Split(p)
       \/ /\ ~autodetect \/ DetectPathFrom(DecodeShare(file), sources) = {}
          /\ pc' = "refused" /\ UNCHANGED <<from, rel>>
       \/ autodetect /\ pc' = "unanswered" /\ UNCHANGED <<from, rel>>
    /\ UNCHANGED <<given, kind, mount, name>>

Kind ==
    IF IsIso(rel) THEN "iso"
    ELSE IF IsDiscPath(rel) \/ IsDiscPath(Slash(rel)) THEN "disc" ELSE "file"

\* What the player is to open, below the share root.
Target == IF Kind = "disc" THEN DiscFolder(Slash(rel)) ELSE rel

\* The target's parent is mounted, its bare name is opened; an empty target is
\* the mounted folder itself.
Locate ==
    /\ pc = "locate" /\ pc' = "mount"
    /\ kind' = Kind
    /\ mount' = IF Target = <<>> THEN <<>> ELSE Front(Target)
    /\ name' = IF Target = <<>> THEN <<>> ELSE <<Last(Target)>>
    /\ UNCHANGED <<given, from, rel>>

\* parse_nfs_share_root: the first run of three components or more, or none.
RootRuns(list) == {i \in 1 .. Len(list) : Len(list[i]) >= 3}
FirstRootRun(list) == CHOOSE i \in RootRuns(list) : \A j \in RootRuns(list) : i <= j
ShareRoot(list) == IF RootRuns(list) = {} THEN <<>> ELSE list[FirstRootRun(list)]

\* A typed path_to is used; a blank one is replaced by what the share list shows.
ExportRoot == IF pathTo # <<>> THEN pathTo ELSE ShareRoot(shares)

\* oppo_mount_folder.
MountFolder ==
    /\ pc = "mount" /\ pc' = "play"
    /\ mount' = ExportRoot \o mount
    /\ UNCHANGED <<given, from, rel, kind, name>>

Next == DetectPath \/ Route \/ SplitTyped \/ AskKodi \/ Locate \/ MountFolder

Spec == Init /\ [][Next]_pathVars

-----------------------------------------------------------------------------
TypeOK ==
    /\ file \in Files /\ typed \in Roots \union {<<>>} /\ sources \subseteq Roots
    /\ pathTo \in Exports /\ shares \in ShareLists /\ autodetect \in BOOLEAN
    /\ pc \in {"kodi", "declined", "split", "ask", "refused", "unanswered", "locate", "mount", "play"}
    /\ from \in Seq(STRING) /\ rel \in Seq(STRING)
    /\ pc \in {"locate", "mount", "play"} => from # <<>> /\ rel # <<>>
    /\ kind \in {"none", "disc", "iso", "file"}
    /\ mount \in Seq(STRING) /\ name \in Seq(STRING) /\ Len(name) <= 1

\* Kodi's rules and the player's own gate are one rule: what Kodi routes is
\* never declined, though Kodi matches the path as it has it and the gate the
\* decoded one (detector.py, "cannot drift apart").
RoutedIsTaken == pc # "declined"

\* A folder is handed over as a disc only if it is one: neither the mount nor
\* the folder to open is an index file or an image, the mount that crashes the
\* player's NFS client (disc_folder).
NeverMountsAFile ==
    pc = "play" /\ kind = "disc" =>
        \A i \in DOMAIN (mount \o name) : (mount \o name)[i] \notin IsoNames \union BdmvNames
=============================================================================
