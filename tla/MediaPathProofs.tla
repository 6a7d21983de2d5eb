-------------------------- MODULE MediaPathProofs --------------------------
(***************************************************************************)
(* Theorems about the path of a disc, for every library, every typed       *)
(* prefix and every set of Kodi sources.                                   *)
(***************************************************************************)
EXTENDS MediaLibrary, SequenceTheorems, WellFoundedInduction, TLAPS

-----------------------------------------------------------------------------
(* Lemmas about the operators. *)

\* Decoding changes components in place.
LEMMA DecodeKeeps ==
    ASSUME NEW p \in Seq(STRING)
    PROVE  /\ DecodeShare(p) \in Seq(STRING)
           /\ Len(DecodeShare(p)) = Len(p)
           /\ \A i \in 1 .. Len(p) :
                 /\ p[i] \in IsoNames => DecodeShare(p)[i] \in IsoNames
                 /\ p[i] \in BdmvNames => DecodeShare(p)[i] \in BdmvNames
                 /\ p[i] \in DiscSegments => DecodeShare(p)[i] = p[i]
<1> DEFINE Meant(i) == IF p[i] \in DOMAIN Decoded THEN Decoded[p[i]] ELSE p[i]
           d == [i \in 1 .. Len(p) |-> Meant(i)]
<1>1. Len(p) \in Nat /\ DOMAIN p = 1 .. Len(p) /\ \A i \in 1 .. Len(p) : p[i] \in STRING
  BY LenProperties, ElementOfSeq
<1>2. \A i \in 1 .. Len(p) : Meant(i) \in STRING
  BY <1>1, PathConstants
<1>3. d \in Seq(STRING) /\ Len(d) = Len(p)
  BY <1>1, <1>2, SeqDef, LenProperties
<1>4. DecodeShare(p) = d \/ DecodeShare(p) = p
  BY <1>1 DEF DecodeShare
<1>5. \A i \in 1 .. Len(p) :
         /\ p[i] \in IsoNames => d[i] \in IsoNames
         /\ p[i] \in BdmvNames => d[i] \in BdmvNames
         /\ p[i] \in DiscSegments => d[i] = p[i]
  BY PathConstants
<1> HIDE DEF d
<1> QED
  BY <1>3, <1>4, <1>5

\* What lies below a prefix is cut off where the prefix ends.
LEMMA SplitIsExact ==
    ASSUME NEW text \in Seq(STRING), NEW prefix \in Seq(STRING), Below(text, prefix)
    PROVE  /\ Len(prefix) \in 1 .. Len(text) - 1
           /\ After(text, prefix) \in Seq(STRING)
           /\ After(text, prefix) # <<>>
           /\ prefix \o After(text, prefix) = text
<1>1. /\ Len(prefix) <= Len(text) /\ prefix # text /\ prefix # <<>>
      /\ prefix = SubSeq(text, 1, Len(prefix))
  BY SubSeqFull DEF Below, IsStrictPrefix, IsPrefix
<1>2. Len(prefix) # Len(text)
  BY <1>1, SubSeqFull
<1>3. Len(prefix) \in 1 .. Len(text) - 1
  BY <1>1, <1>2, EmptySeq, LenProperties
<1>4. /\ After(text, prefix) \in Seq(STRING)
      /\ Len(After(text, prefix)) = Len(text) - Len(prefix)
  BY <1>3, LenProperties, ElementOfSeq, SubSeqProperties DEF After
<1>5. After(text, prefix) # <<>>
  BY <1>3, <1>4, EmptySeq, LenProperties
<1>6. SubSeq(text, 1, Len(prefix)) \o SubSeq(text, Len(prefix) + 1, Len(text))
         = SubSeq(text, 1, Len(text))
  BY <1>3, LenProperties, ConcatAdjacentSubSeq
<1> QED
  BY <1>1, <1>3, <1>4, <1>5, <1>6, SubSeqFull DEF After

\* Two sources that map the same file and are equally long are one.
LEMMA BroadestIsUnique ==
    ASSUME NEW text \in Seq(STRING), NEW srcs, srcs \subseteq Seq(STRING),
           NEW p \in DetectPathFrom(text, srcs), NEW q \in DetectPathFrom(text, srcs)
    PROVE  p = q
<1>1. /\ p \in Seq(STRING) /\ q \in Seq(STRING)
      /\ Below(text, p) /\ Below(text, q)
      /\ Len(p) <= Len(q) /\ Len(q) <= Len(p)
  BY DecodeKeeps DEF DetectPathFrom, Candidates
<1>2. Len(p) = Len(q)
  BY <1>1, LenProperties
<1> QED
  BY <1>1, <1>2, SubSeqFull DEF Below, IsStrictPrefix, IsPrefix

\* A set of numbers that is not empty has a smallest one.
LEMMA Smallest ==
    ASSUME NEW T, T \subseteq Nat, T # {}
    PROVE  \E n \in T : \A m \in T : n <= m
<1> DEFINE less == {ss \in Nat \X Nat : ss[1] < ss[2]}
<1>1. IsWellFoundedOn(less, Nat)
  BY NatLessThanWellFounded, Zenon DEF OpToRel
<1>2. \A m, n \in Nat : m < n => <<m, n>> \in less
  OBVIOUS
<1>3. PICK n \in T : \A m \in T : <<m, n>> \notin less
  BY <1>1, WFMin
<1> HIDE DEF less
<1>4. ASSUME NEW m \in T
      PROVE  n <= m
  <2>1. m \in Nat /\ n \in Nat /\ <<m, n>> \notin less
    BY <1>3
  <2>2. ~(m < n)
    BY <1>2, <2>1
  <2> QED
    BY <2>1, <2>2
<1> QED
  BY <1>4

\* When some source maps the file, one is chosen.
LEMMA BroadestExists ==
    ASSUME NEW text \in Seq(STRING), NEW srcs, srcs \subseteq Seq(STRING),
           Candidates(text, srcs) # {}
    PROVE  DetectPathFrom(text, srcs) # {}
<1> DEFINE lengths == {Len(p) : p \in Candidates(text, srcs)}
<1>1. \A p \in Candidates(text, srcs) : p \in Seq(STRING)
  BY DecodeKeeps DEF Candidates
<1>2. lengths \subseteq Nat /\ lengths # {}
  BY <1>1, LenProperties
<1>3. PICK n \in lengths : \A m \in lengths : n <= m
  BY <1>2, Smallest
<1>4. PICK p \in Candidates(text, srcs) : n = Len(p)
  BY <1>3
<1>5. \A q \in Candidates(text, srcs) : Len(p) <= Len(q)
  BY <1>3, <1>4
<1> QED
  BY <1>4, <1>5 DEF DetectPathFrom

\* Kodi's rules on the path as it has it, the player's gate on the decoded one.
LEMMA RulesAgree ==
    ASSUME NEW p \in Seq(STRING), p # <<>>, PcfRoutes(p)
    PROVE  IsHandoffTarget(p)
<1> DEFINE d == DecodeShare(p)
<1>1. /\ d \in Seq(STRING) /\ Len(d) = Len(p) /\ Len(p) \in Nat \ {0}
      /\ d # <<>>
  BY DecodeKeeps, EmptySeq, LenProperties
<1>2. CASE Last(p) \in IsoNames
  BY <1>1, <1>2, DecodeKeeps DEF Last, IsIso, IsHandoffTarget
<1>3. CASE Last(p) \in BdmvNames
  BY <1>1, <1>3, DecodeKeeps DEF Last, IsDiscPath, IsHandoffTarget
<1>4. ASSUME NEW i \in 1 .. Len(p) - 1, p[i] \in DiscSegments
      PROVE  IsHandoffTarget(p)
  <2>1. d[i] = p[i] /\ i \in 1 .. Len(d) - 1
    BY <1>1, <1>4, DecodeKeeps
  <2>2. i \in Marks(d, "bdmv") \/ i \in Marks(d, "video_ts")
    BY <1>4, <2>1 DEF Marks, DiscSegments
  <2>3. Markers(d) # {}
    BY <2>2 DEF Markers
  <2> QED
    BY <1>1, <2>3 DEF IsDiscPath, IsHandoffTarget
<1> QED
  BY <1>2, <1>3, <1>4 DEF PcfRoutes

\* A slash at the end leaves what is before it.
LEMMA SlashKeeps ==
    ASSUME NEW p \in Seq(STRING)
    PROVE  /\ Len(Slash(p)) = Len(p) + 1
           /\ \A i \in 1 .. Len(p) : Slash(p)[i] = p[i]
<1>1. p \in Seq(STRING \union {""})
  BY SeqMonotonic
<1>2. ASSUME NEW S, p \in Seq(S), NEW e \in S
      PROVE  /\ Len(Append(p, e)) = Len(p) + 1
             /\ \A i \in 1 .. Len(p) : Append(p, e)[i] = p[i]
  BY <1>2, AppendProperties
<1>3. "" \in STRING \union {""}
  BY Zenon
<1> QED
  BY <1>1, <1>2, <1>3, Zenon DEF Slash

\* The folder of a disc lies strictly above the path it was found by.
LEMMA FolderIsAbove ==
    ASSUME NEW p \in Seq(STRING), p # <<>>
    PROVE  /\ DiscFolder(Slash(p)) \in Seq(STRING)
           /\ Len(DiscFolder(Slash(p))) < Len(p)
           /\ \A i \in 1 .. Len(DiscFolder(Slash(p))) : DiscFolder(Slash(p))[i] = p[i]
<1> DEFINE s == Slash(p)
<1>1. /\ Len(s) = Len(p) + 1 /\ Len(p) \in Nat \ {0}
      /\ \A i \in 1 .. Len(p) : s[i] = p[i] /\ p[i] \in STRING
  BY SlashKeeps, EmptySeq, ElementOfSeq, LenProperties
<1>2. PICK k \in 0 .. Len(p) - 1 : DiscFolder(s) = SubSeq(s, 1, k)
  <2>1. CASE Markers(s) # {}
    <3>1. Markers(s) \subseteq 1 .. Len(p)
      BY <1>1 DEF Markers, Marks
    <3>2. \E i \in Markers(s) : \A j \in Markers(s) : i <= j
      BY <2>1, <3>1, Smallest
    <3>3. DiscMarkerIndex(s) \in Markers(s)
      BY <3>2 DEF DiscMarkerIndex
    <3>4. DiscMarkerIndex(s) - 1 \in 0 .. Len(p) - 1
      BY <1>1, <3>1, <3>3
    <3> QED
      BY <2>1, <3>4 DEF DiscFolder
  <2>2. CASE Markers(s) = {}
    BY <1>1, <2>2 DEF DiscFolder
  <2> QED
    BY <2>1, <2>2
<1>3. \A i \in 1 .. k : s[i] \in STRING /\ s[i] = p[i]
  BY <1>1
<1>4. /\ SubSeq(s, 1, k) \in Seq(STRING)
      /\ Len(SubSeq(s, 1, k)) = k
      /\ \A i \in 1 .. k : SubSeq(s, 1, k)[i] = s[i]
  BY <1>3, SubSeqProperties
<1> QED
  BY <1>1, <1>2, <1>3, <1>4

\* A path of one component or more is its parent and its name.
LEMMA FrontLast ==
    ASSUME NEW p \in Seq(STRING), p # <<>>
    PROVE  /\ Front(p) \in Seq(STRING) /\ Len(Front(p)) = Len(p) - 1
           /\ \A i \in 1 .. Len(p) - 1 : Front(p)[i] = p[i]
           /\ Last(p) \in STRING /\ Last(p) = p[Len(p)]
<1>1. Len(p) \in Nat \ {0} /\ \A i \in 1 .. Len(p) : p[i] \in STRING
  BY EmptySeq, ElementOfSeq, LenProperties
<1> DEFINE n == Len(p) - 1
<1>2. n \in Nat /\ \A i \in 1 .. n : p[i] \in STRING
  BY <1>1
<1> HIDE DEF n
<1>3. /\ SubSeq(p, 1, n) \in Seq(STRING)
      /\ Len(SubSeq(p, 1, n)) = n
      /\ \A i \in 1 .. n : SubSeq(p, 1, n)[i] = p[i]
  BY <1>2, SubSeqProperties
<1> USE DEF n
<1> QED
  BY <1>1, <1>3 DEF Front, Last

\* The export root found in a share list is one of its runs, or blank.
LEMMA ShareRootIsPath ==
    ASSUME NEW list \in ShareLists
    PROVE  ShareRoot(list) \in Seq(STRING)
<1>1. list \in Seq(Seq(STRING))
  BY PathConstants
<1>2. CASE RootRuns(list) = {}
  BY <1>2, EmptySeq DEF ShareRoot
<1>3. CASE RootRuns(list) # {}
  <2>1. RootRuns(list) \subseteq 1 .. Len(list)
    BY DEF RootRuns
  <2>2. \E i \in RootRuns(list) : \A j \in RootRuns(list) : i <= j
    <3>1. Len(list) \in Nat
      BY <1>1, LenProperties
    <3>2. RootRuns(list) \subseteq Nat
      BY <2>1, <3>1
    <3> QED
      BY <1>3, <3>2, Smallest
  <2>3. FirstRootRun(list) \in 1 .. Len(list)
    BY <2>1, <2>2 DEF FirstRootRun
  <2> QED
    BY <1>1, <1>3, <2>3, ElementOfSeq DEF ShareRoot
<1> QED
  BY <1>2, <1>3

-----------------------------------------------------------------------------
(* The invariant. *)

\* Of a path that is handed over, nothing is lost between the share root and the rest.
SplitKept ==
    pc \in {"locate", "mount", "play"} =>
        Below(DecodeShare(file), from) /\ rel = After(DecodeShare(file), from)

\* A handoff is refused for its path only when neither the typed prefix nor any
\* source of Kodi's that may be asked maps it: a stale prefix or a useless source
\* never hides a good one (handoff.play, detect_path_from).
RefusedUnmapped ==
    /\ pc = "ask" => ~Below(DecodeShare(file), typed)
    /\ pc = "refused" =>
          /\ ~Below(DecodeShare(file), typed)
          /\ autodetect => Candidates(DecodeShare(file), sources) = {}

PathInv == TypeOK /\ SplitKept /\ RefusedUnmapped /\ RoutedIsTaken

LEMMA InitPath == Init => PathInv
BY EmptySeq DEF Init, PathInv, TypeOK, SplitKept, RefusedUnmapped, RoutedIsTaken

\* The prefix that is used is a path, and so is the file.
LEMMA SplitStep ==
    ASSUME TypeOK, NEW prefix \in Seq(STRING), Split(prefix), UNCHANGED <<given, kind, mount, name>>
    PROVE  TypeOK' /\ SplitKept' /\ RefusedUnmapped' /\ RoutedIsTaken'
<1>1. DecodeShare(file) \in Seq(STRING)
  BY PathConstants, DecodeKeeps DEF TypeOK
<1>2. /\ After(DecodeShare(file), prefix) \in Seq(STRING)
      /\ After(DecodeShare(file), prefix) # <<>>
  BY <1>1, SplitIsExact DEF Split
<1>3. prefix # <<>>
  BY DEF Split, Below
<1>4. TypeOK'
  BY <1>2, <1>3 DEF TypeOK, Split, given
<1>5. SplitKept'
  BY DEF SplitKept, Split, given
<1> QED
  BY <1>4, <1>5 DEF RefusedUnmapped, RoutedIsTaken, Split

\* The folder to mount and the name to open are paths.
LEMMA TargetTyped ==
    ASSUME NEW target \in Seq(STRING)
    PROVE  /\ (IF target = <<>> THEN <<>> ELSE Front(target)) \in Seq(STRING)
           /\ (IF target = <<>> THEN <<>> ELSE <<Last(target)>>) \in Seq(STRING)
           /\ Len(IF target = <<>> THEN <<>> ELSE <<Last(target)>>) <= 1
<1>1. CASE target = <<>>
  BY <1>1, EmptySeq
<1>2. CASE target # <<>>
  BY <1>2, FrontLast
<1> QED
  BY <1>1, <1>2

LEMMA TargetIsPath ==
    ASSUME rel \in Seq(STRING), rel # <<>>
    PROVE  Target \in Seq(STRING)
BY FolderIsAbove DEF Target

LEMMA NextPath == PathInv /\ [Next]_pathVars => PathInv'
<1> SUFFICES ASSUME PathInv, [Next]_pathVars
             PROVE  PathInv'
  OBVIOUS
<1>1. CASE Route
  <2>1. file \in Seq(STRING) /\ file # <<>>
    BY PathConstants DEF PathInv, TypeOK
  <2>2. IsHandoffTarget(file)
    BY <1>1, <2>1, RulesAgree DEF Route
  <2> QED
    BY <1>1, <2>2 DEF Route, PathInv, TypeOK, SplitKept, RefusedUnmapped, RoutedIsTaken, given
<1>2. CASE SplitTyped
  <2>1. CASE Split(typed)
    <3>1. typed \in Seq(STRING)
      BY PathConstants, EmptySeq DEF PathInv, TypeOK
    <3> QED
      BY <1>2, <2>1, <3>1, SplitStep DEF PathInv, SplitTyped
  <2>2. CASE ~Below(DecodeShare(file), typed) /\ pc' = "ask" /\ UNCHANGED <<from, rel>>
    BY <1>2, <2>2 DEF SplitTyped, PathInv, TypeOK, SplitKept, RefusedUnmapped, RoutedIsTaken, given
  <2> QED
    BY <1>2, <2>1, <2>2 DEF SplitTyped
<1>3. CASE AskKodi
  <2> DEFINE text == DecodeShare(file)
  <2>1. text \in Seq(STRING) /\ sources \subseteq Seq(STRING)
    BY PathConstants, DecodeKeeps DEF PathInv, TypeOK
  <2>2. CASE \E p \in DetectPathFrom(text, sources) : Split(p)
    <3>1. PICK p \in DetectPathFrom(text, sources) : Split(p)
      BY <2>2
    <3>2. p \in Seq(STRING)
      BY <2>1, DecodeKeeps DEF DetectPathFrom, Candidates
    <3> QED
      BY <1>3, <3>1, <3>2, SplitStep DEF PathInv, AskKodi
  <2>3. CASE ~autodetect \/ DetectPathFrom(text, sources) = {}
    <3>1. autodetect /\ DetectPathFrom(text, sources) = {} => Candidates(text, sources) = {}
      BY <2>1, BroadestExists
    <3>2. CASE pc' = "refused" /\ UNCHANGED <<from, rel>>
      BY <1>3, <2>3, <3>1, <3>2
         DEF AskKodi, PathInv, TypeOK, SplitKept, RefusedUnmapped, RoutedIsTaken, given
    <3>3. CASE pc' = "unanswered" /\ UNCHANGED <<from, rel>>
      BY <1>3, <3>3 DEF AskKodi, PathInv, TypeOK, SplitKept, RefusedUnmapped, RoutedIsTaken, given
    <3> QED
      BY <1>3, <2>2, <2>3, <3>2, <3>3 DEF AskKodi
  <2>4. CASE autodetect /\ pc' = "unanswered" /\ UNCHANGED <<from, rel>>
    BY <1>3, <2>4 DEF AskKodi, PathInv, TypeOK, SplitKept, RefusedUnmapped, RoutedIsTaken, given
  <2> QED
    BY <1>3, <2>2, <2>3, <2>4 DEF AskKodi
<1>4. CASE Locate
  <2>1. Target \in Seq(STRING)
    BY <1>4, TargetIsPath DEF Locate, PathInv, TypeOK
  <2>2. Kind \in {"disc", "iso", "file"}
    BY DEF Kind
  <2>3. mount' \in Seq(STRING) /\ name' \in Seq(STRING) /\ Len(name') <= 1
    BY <1>4, <2>1, TargetTyped DEF Locate
  <2> QED
    BY <1>4, <2>2, <2>3 DEF Locate, PathInv, TypeOK, SplitKept, RefusedUnmapped, RoutedIsTaken, given
<1>5. CASE MountFolder
  <2>1. ExportRoot \in Seq(STRING) /\ mount \in Seq(STRING)
    BY PathConstants, ShareRootIsPath DEF ExportRoot, PathInv, TypeOK
  <2>2. mount' \in Seq(STRING)
    BY <1>5, <2>1, ConcatProperties DEF MountFolder
  <2> QED
    BY <1>5, <2>2 DEF MountFolder, PathInv, TypeOK, SplitKept, RefusedUnmapped, RoutedIsTaken, given
<1>6. CASE DetectPath
  BY <1>6 DEF DetectPath, PathInv, TypeOK, SplitKept, RefusedUnmapped, RoutedIsTaken
<1>7. CASE UNCHANGED pathVars
  BY <1>7 DEF pathVars, PathInv, TypeOK, SplitKept, RefusedUnmapped, RoutedIsTaken, given
<1> QED
  BY <1>1, <1>2, <1>3, <1>4, <1>5, <1>6, <1>7 DEF Next

LEMMA PathInvariant == Spec => []PathInv
BY InitPath, NextPath, PTL DEF Spec

-----------------------------------------------------------------------------
(* Theorems. *)

\* Type correctness.
THEOREM TypeCorrect == Spec => []TypeOK
BY PathInvariant, PTL DEF PathInv

\* What Kodi's rules route the external player takes, in every library.
THEOREM RoutedDiscsTaken == Spec => []RoutedIsTaken
BY PathInvariant, PTL DEF PathInv

\* Only what neither the typed prefix nor a usable source maps is refused.
THEOREM RefusedOnlyUnmapped == Spec => []RefusedUnmapped
BY PathInvariant, PTL DEF PathInv

\* The share root and the path below it make up the file that was asked for.
THEOREM NothingLostInSplit == Spec => [](pc \in {"locate", "mount", "play"} => from \o rel = DecodeShare(file))
<1>1. PathInv => (pc \in {"locate", "mount", "play"} => from \o rel = DecodeShare(file))
  <2> SUFFICES ASSUME PathInv, pc \in {"locate", "mount", "play"}
               PROVE  from \o rel = DecodeShare(file)
    OBVIOUS
  <2>1. DecodeShare(file) \in Seq(STRING) /\ from \in Seq(STRING)
    BY PathConstants, DecodeKeeps DEF PathInv, TypeOK
  <2> QED
    BY <2>1, SplitIsExact DEF PathInv, SplitKept
<1> QED
  BY <1>1, PathInvariant, PTL

-----------------------------------------------------------------------------
(* No index file and no image is mounted for a disc, in every library whose *)
(* folders do not have such names.                                          *)

NoFile(p) == \A i \in 1 .. Len(p) : p[i] \notin IsoNames \union BdmvNames

PlainFolders ==
    /\ \A f \in Files : \A i \in 1 .. Len(f) - 1 : DecodeShare(f)[i] \notin IsoNames \union BdmvNames
    /\ \A e \in Exports \union {ShareRoot(list) : list \in ShareLists} : NoFile(e)

FoldersOnly == pc \in {"mount", "play"} /\ kind = "disc" => NoFile(mount) /\ NoFile(name)

\* A disc's folder holds folders of the file's path only.
LEMMA DiscTargetPlain ==
    ASSUME PlainFolders, PathInv, pc = "locate", Kind = "disc"
    PROVE  Target \in Seq(STRING) /\ NoFile(Target)
<1> DEFINE text == DecodeShare(file)
<1>1. /\ rel \in Seq(STRING) /\ rel # <<>>
      /\ text \in Seq(STRING) /\ Len(text) = Len(file) /\ from \in Seq(STRING)
      /\ file \in Files
  BY PathConstants, DecodeKeeps DEF PathInv, TypeOK
<1>2. Below(text, from) /\ rel = After(text, from)
  BY DEF PathInv, SplitKept
<1>3. Len(from) \in 1 .. Len(text) - 1 /\ from \o rel = text
  BY <1>1, <1>2, SplitIsExact
<1>4. /\ Len(text) = Len(from) + Len(rel) /\ Len(rel) \in Nat /\ Len(from) \in Nat
      /\ \A i \in 1 .. Len(rel) : rel[i] = text[Len(from) + i]
  <2>1. /\ Len(from \o rel) = Len(from) + Len(rel) /\ Len(rel) \in Nat /\ Len(from) \in Nat
        /\ \A i \in 1 .. Len(from) + Len(rel) :
              (from \o rel)[i] = IF i <= Len(from) THEN from[i] ELSE rel[i - Len(from)]
    BY <1>1, ConcatProperties, LenProperties
  <2>2. ASSUME NEW i \in 1 .. Len(rel)
        PROVE  rel[i] = (from \o rel)[Len(from) + i]
    BY <2>1
  <2> QED
    BY <1>3, <2>1, <2>2
<1>5. Target = DiscFolder(Slash(rel))
  BY DEF Target
<1>6. /\ Target \in Seq(STRING) /\ Len(Target) < Len(rel) /\ Len(Target) \in Nat
      /\ \A i \in 1 .. Len(Target) : Target[i] = rel[i]
  BY <1>1, <1>5, FolderIsAbove, LenProperties
<1>7. ASSUME NEW i \in 1 .. Len(Target)
      PROVE  Target[i] \notin IsoNames \union BdmvNames
  <2>1. Target[i] = text[Len(from) + i] /\ Len(from) + i \in 1 .. Len(file) - 1
    BY <1>1, <1>4, <1>6
  <2> QED
    BY <1>1, <2>1 DEF PlainFolders
<1> QED
  BY <1>6, <1>7 DEF NoFile

LEMMA NextFolders ==
    ASSUME PlainFolders, PathInv, PathInv', FoldersOnly, [Next]_pathVars
    PROVE  FoldersOnly'
<1>1. CASE DetectPath \/ Route \/ SplitTyped \/ AskKodi
  BY <1>1 DEF DetectPath, Route, SplitTyped, AskKodi, Split, FoldersOnly
<1>2. CASE Locate
  <2> SUFFICES ASSUME Kind = "disc"
               PROVE  NoFile(mount') /\ NoFile(name')
    BY <1>2 DEF Locate, FoldersOnly
  <2>1. Target \in Seq(STRING) /\ NoFile(Target)
    BY <1>2, DiscTargetPlain DEF Locate
  <2>2. CASE Target = <<>>
    BY <1>2, <2>2, EmptySeq DEF Locate, NoFile
  <2>3. CASE Target # <<>>
    <3>1. mount' = Front(Target) /\ name' = <<Last(Target)>>
      BY <1>2, <2>3 DEF Locate
    <3>2. Len(Target) \in Nat \ {0}
      BY <2>1, <2>3, EmptySeq
    <3>3. /\ Len(Front(Target)) = Len(Target) - 1
          /\ \A i \in 1 .. Len(Target) - 1 : Front(Target)[i] = Target[i]
          /\ Last(Target) = Target[Len(Target)]
      BY <2>1, <2>3, FrontLast
    <3>4. NoFile(Front(Target))
      BY <2>1, <3>2, <3>3 DEF NoFile
    <3>5. NoFile(<<Last(Target)>>)
      BY <2>1, <3>2, <3>3 DEF NoFile
    <3> QED
      BY <3>1, <3>4, <3>5
  <2> QED
    BY <2>2, <2>3
<1>3. CASE MountFolder
  <2>1. /\ ExportRoot \in Exports \union {ShareRoot(list) : list \in ShareLists}
        /\ ExportRoot \in Seq(STRING) /\ mount \in Seq(STRING)
    BY PathConstants, ShareRootIsPath DEF ExportRoot, PathInv, TypeOK
  <2>2. NoFile(ExportRoot)
    BY <2>1 DEF PlainFolders
  <2>3. ASSUME NoFile(mount)
        PROVE  NoFile(ExportRoot \o mount)
    BY <2>1, <2>2, <2>3, ConcatProperties, LenProperties DEF NoFile
  <2> QED
    BY <1>3, <2>3 DEF MountFolder, FoldersOnly
<1>4. CASE UNCHANGED pathVars
  BY <1>4 DEF pathVars, FoldersOnly
<1> QED
  BY <1>1, <1>2, <1>3, <1>4 DEF Next

\* Neither the folder mounted for a disc nor the one opened in it is a file.
THEOREM FoldersAreMounted ==
    ASSUME PlainFolders
    PROVE  Spec => []NeverMountsAFile
<1>1. Init => FoldersOnly
  BY DEF Init, FoldersOnly
<1>2. PathInv /\ FoldersOnly /\ PathInv' /\ [Next]_pathVars => FoldersOnly'
  BY NextFolders
<1>3. PathInv /\ FoldersOnly => NeverMountsAFile
  <2> SUFFICES ASSUME PathInv, FoldersOnly, pc = "play", kind = "disc",
                      NEW i \in DOMAIN (mount \o name)
               PROVE  (mount \o name)[i] \notin IsoNames \union BdmvNames
    BY DEF NeverMountsAFile
  <2>1. mount \in Seq(STRING) /\ name \in Seq(STRING) /\ NoFile(mount) /\ NoFile(name)
    BY DEF PathInv, TypeOK, FoldersOnly
  <2>2. i \in 1 .. Len(mount) + Len(name) /\ Len(mount) \in Nat /\ Len(name) \in Nat
    BY <2>1, ConcatProperties, LenProperties
  <2> QED
    BY <2>1, <2>2, ConcatProperties DEF NoFile
<1> QED
  BY <1>1, <1>2, <1>3, PathInvariant, PTL DEF Spec

-----------------------------------------------------------------------------
(* A disc that is played is the disc that was asked for, in every library    *)
(* whose parts have their shapes (MediaLibrary).                             *)

\* A file of the library: its share, the folder in it, and what is in that folder.
LEMMA PathParts ==
    ASSUME NEW f \in Library
    PROVE  /\ f[1] \in Shares /\ f[1] \in Seq(STRING) /\ f[1] # <<>> /\ HasSharePath(f[1])
           /\ f[2] \in Seq(STRING) /\ f[3] \in Seq(STRING) /\ Plain(f[3])
           /\ f[4] \in Contents /\ f[4] \in Seq(STRING) /\ f[4] # <<>>
           /\ f[2] \o f[3] \in Seq(STRING)
           /\ (f[2] \o f[3]) \o f[4] \in Seq(STRING) /\ (f[2] \o f[3]) \o f[4] # <<>>
           /\ PathOf(f) = f[1] \o ((f[2] \o f[3]) \o f[4])
           /\ PathOf(f) \in Seq(STRING) /\ PathOf(f) # <<>>
<1>1. f[1] \in Shares /\ f[2] \in Libraries /\ f[3] \in Titles /\ f[4] \in Contents
  BY DEF Library
<1> DEFINE a == f[1]
           b == f[2]
           c == f[3]
           d == f[4]
<1>2. /\ a \in Seq(STRING) /\ a # <<>> /\ b \in Seq(STRING) /\ c \in Seq(STRING)
      /\ d \in Seq(STRING) /\ d # <<>>
  BY <1>1, LibraryParts
<1>3. PathOf(f) = ((a \o b) \o c) \o d
  BY DEF PathOf
<1>4. HasSharePath(f[1]) /\ Plain(f[3])
  BY <1>1, LibraryParts
<1> HIDE DEF a, b, c, d
<1>5. /\ a \o b \in Seq(STRING) /\ b \o c \in Seq(STRING) /\ (b \o c) \o d \in Seq(STRING)
      /\ (a \o b) \o c = a \o (b \o c)
  BY <1>2, ConcatProperties, ConcatAssociative
<1>6. (a \o (b \o c)) \o d = a \o ((b \o c) \o d)
  BY <1>2, <1>5, ConcatAssociative
<1>7. (b \o c) \o d # <<>>
  BY <1>2, <1>5, ConcatEqualIffEmpty
<1>8. a \o ((b \o c) \o d) \in Seq(STRING) /\ a \o ((b \o c) \o d) # <<>>
  <2> DEFINE r == (b \o c) \o d
  <2>1. r \in Seq(STRING)
    BY <1>5
  <2> HIDE DEF r
  <2>2. a \o r \in Seq(STRING) /\ a \o r # <<>>
    BY <1>2, <2>1, ConcatProperties, ConcatEqualIffEmpty
  <2> QED
    BY <2>2 DEF r
<1> QED
  BY <1>1, <1>2, <1>3, <1>4, <1>5, <1>6, <1>7, <1>8 DEF a, b, c, d

\* What follows a prefix is below it, and is what is cut off.
LEMMA AfterConcat ==
    ASSUME NEW s \in Seq(STRING), NEW r \in Seq(STRING), s # <<>>, r # <<>>
    PROVE  Below(s \o r, s) /\ After(s \o r, s) = r
<1>1. /\ s \o r \in Seq(STRING) /\ Len(s \o r) = Len(s) + Len(r)
      /\ Len(s) \in Nat \ {0} /\ Len(r) \in Nat \ {0}
  BY ConcatProperties, EmptySeq
<1>2. SubSeq(s \o r, 1, Len(s)) = SubSeq(s, 1, Len(s))
  BY <1>1, SubSeqOfConcat1
<1>3. s # s \o r
  BY <1>1
<1>4. Below(s \o r, s)
  BY <1>1, <1>2, <1>3 DEF Below, IsStrictPrefix, IsPrefix
<1>5. SubSeq(s \o r, Len(s) + 1, Len(s) + Len(r)) = SubSeq(r, 1, Len(r))
  <2>1. /\ Len(s) + 1 \in Len(s) + 1 .. Len(s) + Len(r)
        /\ Len(s) + Len(r) \in Len(s) + 1 .. Len(s) + Len(r)
        /\ Len(s) + 1 - Len(s) = 1 /\ Len(s) + Len(r) - Len(s) = Len(r)
    BY <1>1
  <2> QED
    BY <2>1, SubSeqOfConcat2
<1> QED
  BY <1>1, <1>4, <1>5, SubSeqFull DEF After

\* Decoding undoes Kodi's encoding where what looks encoded is encoded.
LEMMA Recoded ==
    ASSUME NEW p \in Seq(STRING), p # <<>>,
           \A i \in 1 .. Len(p) : p[i] \in DOMAIN Decoded => p[i] \in DOMAIN Encoded
    PROVE  DecodeShare(Encode(p)) = p
<1>1. DOMAIN p = 1 .. Len(p) /\ Len(p) \in Nat \ {0} /\ p = [i \in DOMAIN p |-> p[i]]
  BY EmptySeq, LenProperties
<1>2. CASE p[1] \notin Hosts
  BY <1>2 DEF Encode, DecodeShare
<1>3. CASE p[1] \in Hosts
  <2> DEFINE e == [i \in DOMAIN p |-> IF p[i] \in DOMAIN Encoded THEN Encoded[p[i]] ELSE p[i]]
  <2>1. Encode(p) = e
    BY <1>3 DEF Encode
  <2>2. DOMAIN e = DOMAIN p
    OBVIOUS
  <2>3. e[1] = p[1]
    BY <1>1, <1>3, EncodingShape
  <2>4. \A i \in DOMAIN p : (IF e[i] \in DOMAIN Decoded THEN Decoded[e[i]] ELSE e[i]) = p[i]
    BY <1>1, EncodingShape
  <2> HIDE DEF e
  <2>5. e # <<>>
    BY <1>1, <2>2
  <2>6. DecodeShare(e) = [i \in DOMAIN e |-> IF e[i] \in DOMAIN Decoded THEN Decoded[e[i]] ELSE e[i]]
    BY <1>3, <2>3, <2>5 DEF DecodeShare
  <2>7. DecodeShare(e) = [i \in DOMAIN p |-> p[i]]
    BY <2>2, <2>4, <2>6
  <2> QED
    BY <1>1, <2>1, <2>7
<1> QED
  BY <1>2, <1>3

\* The text that is split, and Kodi's source for the share, are the library's own paths.
LEMMA TextIsPath ==
    ASSUME NEW f \in Places
    PROVE  /\ f \in Library
           /\ DecodeShare(file) = PathOf(f)
           /\ DecodeShare(Encode(f[1])) = f[1]
           /\ Below(PathOf(f), f[1])
           /\ After(PathOf(f), f[1]) = (f[2] \o f[3]) \o f[4]
<1>1. f \in Library /\ Encode(PathOf(f)) = file
  BY DEF Places
<1> DEFINE s == f[1]
           r == (f[2] \o f[3]) \o f[4]
<1>2. /\ s \in Seq(STRING) /\ s # <<>> /\ r \in Seq(STRING) /\ r # <<>>
      /\ PathOf(f) = s \o r /\ PathOf(f) \in Seq(STRING) /\ PathOf(f) # <<>>
  BY <1>1, PathParts
<1>3. \A i \in 1 .. Len(PathOf(f)) : PathOf(f)[i] \in DOMAIN Decoded => PathOf(f)[i] \in DOMAIN Encoded
  BY <1>1, <1>2, LenProperties, EncodingShape
<1> HIDE DEF s, r
<1>4. DecodeShare(Encode(PathOf(f))) = PathOf(f)
  BY <1>2, <1>3, Recoded
<1>5. ASSUME NEW i \in 1 .. Len(s)
      PROVE  s[i] = PathOf(f)[i] /\ i \in 1 .. Len(PathOf(f))
  BY <1>2, ConcatProperties, LenProperties
<1>6. DecodeShare(Encode(s)) = s
  <2>1. \A i \in 1 .. Len(s) : s[i] \in DOMAIN Decoded => s[i] \in DOMAIN Encoded
    BY <1>3, <1>5
  <2> QED
    BY <1>2, <2>1, Recoded
<1>7. Below(s \o r, s) /\ After(s \o r, s) = r
  BY <1>2, AfterConcat
<1> QED
  BY <1>1, <1>2, <1>4, <1>6, <1>7 DEF s, r

\* Of two prefixes of one text the shorter is a prefix of the longer, and equally long ones are one.
LEMMA PrefixesNest ==
    ASSUME NEW text \in Seq(STRING), NEW p \in Seq(STRING), NEW q \in Seq(STRING),
           Below(text, p), Below(text, q), Len(p) <= Len(q)
    PROVE  p = q \/ IsStrictPrefix(p, q)
<1>1. /\ Len(p) \in Nat \ {0} /\ Len(q) \in Nat /\ Len(q) <= Len(text) /\ Len(text) \in Nat
      /\ p = SubSeq(text, 1, Len(p)) /\ q = SubSeq(text, 1, Len(q))
  BY SplitIsExact, SubSeqFull, LenProperties DEF Below, IsStrictPrefix, IsPrefix
<1>2. SubSeq(SubSeq(text, 1, Len(q)), 1, Len(p)) = SubSeq(text, 1, Len(p))
  <2>1. /\ 1 \in 1 .. Len(text) /\ Len(q) \in 1 .. Len(text)
        /\ 1 \in 1 .. Len(q) - 1 + 1 /\ Len(p) \in 1 .. Len(q) - 1 + 1
        /\ 1 + 1 - 1 = 1 /\ 1 + Len(p) - 1 = Len(p)
    BY <1>1
  <2> QED
    BY <2>1, SubSeqOfSubSeq
<1>3. SubSeq(q, 1, Len(p)) = p
  BY <1>1, <1>2
<1>4. SubSeq(p, 1, Len(p)) = p
  BY SubSeqFull
<1> QED
  BY <1>3, <1>4 DEF IsStrictPrefix, IsPrefix

\* A source that is the share is a candidate, and the broadest one is the share.
LEMMA ShareIsBroadest ==
    ASSUME NEW f \in Places, TypeOK, Encode(f[1]) \in sources,
           NEW p \in DetectPathFrom(DecodeShare(file), sources)
    PROVE  p = f[1]
<1>1. /\ f \in Library /\ f[1] \in Seq(STRING) /\ f[1] # <<>> /\ HasSharePath(f[1])
      /\ f[1] \in Shares
      /\ DecodeShare(file) = PathOf(f) /\ PathOf(f) \in Seq(STRING)
      /\ DecodeShare(Encode(f[1])) = f[1] /\ Below(PathOf(f), f[1])
  BY TextIsPath, PathParts
<1>2. f[1] \in Candidates(PathOf(f), sources)
  BY <1>1 DEF Candidates
<1>3. /\ p \in Candidates(PathOf(f), sources)
      /\ Len(p) <= Len(f[1])
  BY <1>1, <1>2 DEF DetectPathFrom
<1>4. PICK r \in sources : p = DecodeShare(r) /\ p # <<>> /\ HasSharePath(p) /\ Below(PathOf(f), p)
  BY <1>3 DEF Candidates
<1>5. r \in Roots /\ r \in Seq(STRING)
  BY PathConstants DEF TypeOK
<1>6. p \in Seq(STRING)
  BY <1>4, <1>5, DecodeKeeps
<1>7. p = f[1] \/ IsStrictPrefix(p, f[1])
  BY <1>1, <1>3, <1>4, <1>6, PrefixesNest
<1>8. ~IsStrictPrefix(p, f[1])
  BY <1>1, <1>4, <1>5, SharesAreBroadest
<1> QED
  BY <1>7, <1>8


\* A folder and what is in it.
LEMMA FolderAndContents ==
    ASSUME NEW b \in Seq(STRING), NEW c \in Seq(STRING), c # <<>>
    PROVE  /\ b \o c \in Seq(STRING) /\ b \o c # <<>>
           /\ Len(b) \in Nat /\ Len(c) \in Nat \ {0} /\ Len(b \o c) = Len(b) + Len(c)
           /\ Len(Slash(b \o c)) = Len(b) + Len(c) + 1
           /\ \A i \in 1 .. Len(b) : (b \o c)[i] = b[i] /\ Slash(b \o c)[i] = b[i]
           /\ \A i \in 1 .. Len(c) : /\ (b \o c)[Len(b) + i] = c[i]
                                     /\ Slash(b \o c)[Len(b) + i] = c[i]
           /\ Last(b \o c) = c[Len(c)]
           /\ Last(Slash(b \o c)) = "" /\ Slash(b \o c) # <<>>
<1>1. /\ b \o c \in Seq(STRING) /\ Len(b \o c) = Len(b) + Len(c)
      /\ Len(b) \in Nat /\ Len(c) \in Nat \ {0}
      /\ \A i \in 1 .. Len(b) + Len(c) : (b \o c)[i] = IF i <= Len(b) THEN b[i] ELSE c[i - Len(b)]
  BY ConcatProperties, EmptySeq, LenProperties
<1>2. b \o c # <<>>
  BY <1>1, EmptySeq
<1> DEFINE p == b \o c
<1> HIDE DEF p
<1>3. /\ Len(p) = Len(b) + Len(c) /\ p \in Seq(STRING)
      /\ \A i \in 1 .. Len(b) : p[i] = b[i] /\ i \in 1 .. Len(p)
      /\ \A i \in 1 .. Len(c) : p[Len(b) + i] = c[i] /\ Len(b) + i \in 1 .. Len(p)
  <2>1. ASSUME NEW i \in 1 .. Len(c)
        PROVE  (b \o c)[Len(b) + i] = c[i]
    <3>1. Len(b) + i \in 1 .. Len(b) + Len(c) /\ ~(Len(b) + i <= Len(b)) /\ Len(b) + i - Len(b) = i
      BY <1>1
    <3> QED
      BY <1>1, <3>1
  <2> QED
    BY <1>1, <2>1 DEF p
<1>4. /\ Len(Slash(p)) = Len(p) + 1
      /\ \A i \in 1 .. Len(p) : Slash(p)[i] = p[i]
  BY <1>3, SlashKeeps
<1>5. Last(p) = c[Len(c)]
  <2>1. Len(c) \in 1 .. Len(c) /\ Len(b) + Len(c) = Len(p)
    BY <1>1, <1>3
  <2> QED
    BY <1>3, <2>1 DEF Last
<1>6. Slash(p)[Len(p) + 1] = "" /\ Slash(p) # <<>>
  <2>1. p \in Seq(STRING \union {""})
    BY <1>3, SeqMonotonic
  <2>2. ASSUME NEW S, p \in Seq(S), NEW e \in S
        PROVE  Append(p, e)[Len(p) + 1] = e /\ Append(p, e) # <<>>
    BY <2>2, AppendProperties
  <2>3. "" \in STRING \union {""}
    BY Zenon
  <2> QED
    BY <2>1, <2>2, <2>3, Zenon DEF Slash
<1>7. Last(Slash(p)) = ""
  BY <1>4, <1>6, Zenon DEF Last
<1>8. \A i \in 1 .. Len(b) : p[i] = b[i] /\ Slash(p)[i] = b[i]
  BY <1>3, <1>4
<1>9. \A i \in 1 .. Len(c) : p[Len(b) + i] = c[i] /\ Slash(p)[Len(b) + i] = c[i]
  BY <1>3, <1>4
<1>10. Len(Slash(p)) = Len(b) + Len(c) + 1
  BY <1>3, <1>4
<1> QED
  BY <1>1, <1>2, <1>5, <1>6, <1>7, <1>8, <1>9, <1>10 DEF p

\* The first of a set of numbers is the only one before which there is none.
LEMMA FirstMarker ==
    ASSUME NEW p, NEW k \in Markers(p), Markers(p) \subseteq Nat, \A j \in Markers(p) : k <= j
    PROVE  DiscMarkerIndex(p) = k
<1>1. /\ DiscMarkerIndex(p) \in Markers(p)
      /\ \A j \in Markers(p) : DiscMarkerIndex(p) <= j
  BY DEF DiscMarkerIndex
<1>2. DiscMarkerIndex(p) <= k /\ k <= DiscMarkerIndex(p)
  BY <1>1
<1> HIDE DEF DiscMarkerIndex
<1>3. DiscMarkerIndex(p) \in Nat /\ k \in Nat
  BY <1>1
<1> QED
  BY <1>2, <1>3

\* In a plain folder the first marker is the structure's own name.
LEMMA StructureIsMarked ==
    ASSUME NEW b \in Seq(STRING), NEW c \in Seq(STRING), c # <<>>, Plain(b), c \in Structures
    PROVE  /\ Markers(Slash(b \o c)) # {}
           /\ DiscMarkerIndex(Slash(b \o c)) = Len(b) + 1
<1> DEFINE s == Slash(b \o c)
<1>1. /\ Len(b) \in Nat /\ Len(c) \in Nat \ {0} /\ Len(s) = Len(b) + Len(c) + 1
      /\ \A i \in 1 .. Len(b) : s[i] = b[i]
      /\ \A i \in 1 .. Len(c) : s[Len(b) + i] = c[i]
  BY FolderAndContents
<1>2. \A i \in 1 .. Len(b) : b[i] # "bdmv" /\ b[i] # "video_ts"
  BY LenProperties DEF Plain, DiscSegments
<1>3. /\ c[1] = "bdmv" \/ c[1] = "video_ts"
      /\ c[1] = "video_ts" => \A i \in 1 .. Len(c) : c[i] # "bdmv"
  BY ContentShapes, LenProperties DEF DiscSegments
<1> HIDE DEF s
<1> DEFINE k == Len(b) + 1
<1>4. k \in 1 .. Len(s) - 1 /\ s[k] = c[1] /\ k \in Nat
  <2>1. 1 \in 1 .. Len(c)
    BY <1>1
  <2> QED
    BY <1>1, <2>1
<1>5. ASSUME NEW i \in 1 .. Len(s) - 1, s[i] = "bdmv" \/ s[i] = "video_ts"
      PROVE  k <= i
  <2>1. ~(i \in 1 .. Len(b))
    BY <1>1, <1>2, <1>5
  <2>2. i \in Nat \ {0}
    BY <1>1
  <2> QED
    BY <1>1, <2>1, <2>2
<1>6. \A j \in Markers(s) : k <= j
  BY <1>5 DEF Markers, Marks
<1>7. Markers(s) \subseteq Nat
  BY <1>1 DEF Markers, Marks
<1>8. k \in Markers(s)
  <2>1. CASE c[1] = "bdmv"
    BY <1>4, <2>1 DEF Markers, Marks
  <2>2. CASE c[1] = "video_ts"
    <3>1. ASSUME NEW i \in 1 .. Len(s) - 1
          PROVE  s[i] # "bdmv"
      <4>1. CASE i \in 1 .. Len(b)
        BY <1>1, <1>2, <4>1
      <4>2. CASE i \notin 1 .. Len(b)
        <5>1. i - Len(b) \in 1 .. Len(c) /\ Len(b) + (i - Len(b)) = i
          BY <1>1, <4>2
        <5> QED
          BY <1>1, <1>3, <2>2, <5>1
      <4> QED
        BY <4>1, <4>2
    <3>2. Marks(s, "bdmv") = {}
      BY <3>1 DEF Marks
    <3>3. k \in Marks(s, "video_ts")
      BY <1>4, <2>2 DEF Marks
    <3> QED
      BY <3>2, <3>3 DEF Markers
  <2> QED
    BY <1>3, <2>1, <2>2
<1> HIDE DEF k
<1>9. DiscMarkerIndex(s) = k
  BY <1>6, <1>7, <1>8, FirstMarker
<1> QED
  BY <1>8, <1>9 DEF s, k

\* In plain folders nothing is marked.
LEMMA PlainUnmarked ==
    ASSUME NEW b \in Seq(STRING), NEW c \in Seq(STRING), c # <<>>, Plain(b), Plain(c)
    PROVE  Markers(b \o c) = {} /\ Markers(Slash(b \o c)) = {}
<1> DEFINE p == b \o c
           s == Slash(b \o c)
<1>1. /\ Len(b) \in Nat /\ Len(c) \in Nat \ {0}
      /\ Len(p) = Len(b) + Len(c) /\ Len(s) = Len(b) + Len(c) + 1
      /\ \A i \in 1 .. Len(b) : p[i] = b[i] /\ s[i] = b[i]
      /\ \A i \in 1 .. Len(c) : p[Len(b) + i] = c[i] /\ s[Len(b) + i] = c[i]
  BY FolderAndContents
<1>2. /\ \A i \in 1 .. Len(b) : b[i] # "bdmv" /\ b[i] # "video_ts"
      /\ \A i \in 1 .. Len(c) : c[i] # "bdmv" /\ c[i] # "video_ts"
  BY LenProperties DEF Plain, DiscSegments
<1> HIDE DEF p, s
<1>3. ASSUME NEW i \in 1 .. Len(b) + Len(c)
      PROVE  p[i] # "bdmv" /\ p[i] # "video_ts" /\ s[i] # "bdmv" /\ s[i] # "video_ts"
  <2>1. CASE i \in 1 .. Len(b)
    BY <1>1, <1>2, <2>1
  <2>2. CASE i \notin 1 .. Len(b)
    <3>1. i - Len(b) \in 1 .. Len(c) /\ Len(b) + (i - Len(b)) = i
      BY <1>1, <2>2
    <3> QED
      BY <1>1, <1>2, <3>1
  <2> QED
    BY <2>1, <2>2
<1>4. /\ \A i \in 1 .. Len(p) - 1 : i \in 1 .. Len(b) + Len(c)
      /\ \A i \in 1 .. Len(s) - 1 : i \in 1 .. Len(b) + Len(c)
  BY <1>1
<1>5. Markers(p) = {} /\ Markers(s) = {}
  BY <1>3, <1>4 DEF Markers, Marks
<1> QED
  BY <1>5 DEF p, s

\* The first part of a folder's path with a slash at its end is the folder above it.
LEMMA FolderIsCutOff ==
    ASSUME NEW b \in Seq(STRING), NEW c \in Seq(STRING), c # <<>>
    PROVE  SubSeq(Slash(b \o c), 1, Len(b)) = b
<1> DEFINE s == Slash(b \o c)
<1>1. Len(b) \in Nat /\ \A i \in 1 .. Len(b) : s[i] = b[i] /\ b[i] \in STRING
  BY FolderAndContents, ElementOfSeq
<1> HIDE DEF s
<1>2. /\ SubSeq(s, 1, Len(b)) \in Seq(STRING) /\ Len(SubSeq(s, 1, Len(b))) = Len(b)
      /\ \A i \in 1 .. Len(b) : SubSeq(s, 1, Len(b))[i] = s[i]
  BY <1>1, SubSeqProperties
<1> DEFINE t == SubSeq(s, 1, Len(b))
<1>3. t \in Seq(STRING) /\ Len(t) = Len(b) /\ \A i \in 1 .. Len(t) : t[i] = b[i]
  BY <1>1, <1>2
<1> HIDE DEF t
<1>4. t = b
  BY <1>3, SeqEqual
<1> QED
  BY <1>4 DEF t, s

\* What is opened below the share: a plain folder that holds a disc structure or an
\* index file, or the one file, wherever it lies.
LEMMA TargetOfTitle ==
    ASSUME NEW b \in Seq(STRING), NEW c \in Seq(STRING), c # <<>>, c \in Contents, Plain(b),
           rel = b \o c
    PROVE  Target = IF c \in Single THEN b \o c ELSE b
<1>1. /\ rel # <<>> /\ Last(rel) = c[Len(c)]
      /\ Len(b) \in Nat /\ Len(c) \in Nat \ {0} /\ Len(Slash(rel)) = Len(b) + Len(c) + 1
  BY FolderAndContents
<1>2. Slash(rel) # <<>> /\ Last(Slash(rel)) = ""
  BY FolderAndContents
<1>3. CASE c \in Structures
  <2>1. c[1] \in DiscSegments /\ c[Len(c)] \notin IsoNames
    BY <1>3, ContentShapes
  <2>2. c \notin Single
    <3>1. 1 \in DOMAIN c
      BY <1>1, LenProperties
    <3>2. ~Plain(c)
      BY <2>1, <3>1, Zenon DEF Plain
    <3> QED
      BY <2>1, <3>2, ContentShapes, Zenon
  <2>3. Markers(Slash(rel)) # {} /\ DiscMarkerIndex(Slash(rel)) = Len(b) + 1
    BY <1>3, StructureIsMarked
  <2>4. ~IsIso(rel) /\ IsDiscPath(Slash(rel))
    BY <1>1, <1>2, <2>1, <2>3, Zenon DEF IsIso, IsDiscPath
  <2>5. Target = DiscFolder(Slash(rel))
    BY <2>4 DEF Target, Kind
  <2>6. DiscFolder(Slash(rel)) = SubSeq(Slash(rel), 1, Len(b))
    <3>1. Len(b) + 1 - 1 = Len(b)
      BY <1>1
    <3> QED
      BY <2>3, <3>1 DEF DiscFolder
  <2> QED
    BY <2>2, <2>5, <2>6, FolderIsCutOff
<1>4. CASE c \in Loose
  <2>1. Len(c) = 1 /\ c[1] \in BdmvNames /\ c[1] \notin IsoNames /\ Plain(c)
    BY <1>4, ContentShapes
  <2>2. c \notin Single
    BY <2>1, ContentShapes
  <2>3. Markers(Slash(rel)) = {}
    BY <2>1, PlainUnmarked
  <2>4. ~IsIso(rel) /\ IsDiscPath(rel)
    BY <1>1, <2>1 DEF IsIso, IsDiscPath
  <2>5. Target = DiscFolder(Slash(rel))
    BY <2>4 DEF Target, Kind
  <2>6. DiscFolder(Slash(rel)) = SubSeq(Slash(rel), 1, Len(b))
    <3>1. Len(b) + 1 + 1 - 2 = Len(b)
      BY <1>1
    <3> QED
      BY <1>1, <2>1, <2>3, <3>1 DEF DiscFolder
  <2> QED
    BY <2>2, <2>5, <2>6, FolderIsCutOff
<1>5. CASE c \in Single
  <2>1. CASE c[Len(c)] \in IsoNames
    BY <1>1, <1>5, <2>1 DEF Target, Kind, IsIso
  <2>2. CASE c[Len(c)] \notin IsoNames
    <3>1. Plain(c) /\ c[Len(c)] \notin BdmvNames
      BY <1>5, <2>2, ContentShapes
    <3>2. Markers(rel) = {} /\ Markers(Slash(rel)) = {}
      BY <3>1, PlainUnmarked
    <3>3. Last(Slash(rel)) \notin BdmvNames
      BY <1>2, PathConstants, Zenon
    <3>4. ~IsDiscPath(rel) /\ ~IsDiscPath(Slash(rel))
      BY <1>1, <3>1, <3>2, <3>3, Zenon DEF IsDiscPath
    <3>5. Target = rel
      BY <1>1, <2>2, <3>4 DEF Target, Kind, IsIso
    <3> QED
      BY <1>5, <3>5
  <2> QED
    BY <2>1, <2>2
<1> QED
  BY <1>3, <1>4, <1>5 DEF Contents


\* The prefix in use is the typed one when that maps the file, or else the broadest
\* of Kodi's sources.
Chosen ==
    pc \in {"locate", "mount", "play"} =>
        IF Below(DecodeShare(file), typed)
        THEN from = typed
        ELSE autodetect /\ from \in DetectPathFrom(DecodeShare(file), sources)

\* The mount and the name together are the target, and the export root in front of it.
Located ==
    /\ pc = "mount" => mount \o name = Target
    /\ pc = "play" => mount \o name = ExportRoot \o Target

DiscInv == PathInv /\ Chosen /\ Located

LEMMA NextChosen == PathInv /\ Chosen /\ [Next]_pathVars => Chosen'
<1> SUFFICES ASSUME PathInv, Chosen, [Next]_pathVars
             PROVE  Chosen'
  OBVIOUS
<1>1. CASE DetectPath \/ Route
  BY <1>1 DEF DetectPath, Route, Chosen
<1>2. CASE SplitTyped
  BY <1>2 DEF SplitTyped, Split, Chosen, given
<1>3. CASE AskKodi
  BY <1>3 DEF AskKodi, Split, Chosen, given, PathInv, RefusedUnmapped
<1>4. CASE Locate
  BY <1>4 DEF Locate, Chosen, given
<1>5. CASE MountFolder
  BY <1>5 DEF MountFolder, Chosen, given
<1>6. CASE UNCHANGED pathVars
  BY <1>6 DEF pathVars, Chosen, given
<1> QED
  BY <1>1, <1>2, <1>3, <1>4, <1>5, <1>6 DEF Next

\* A path is its parent and its name; an empty one is neither.
LEMMA ParentAndName ==
    ASSUME NEW target \in Seq(STRING)
    PROVE  (IF target = <<>> THEN <<>> ELSE Front(target))
              \o (IF target = <<>> THEN <<>> ELSE <<Last(target)>>) = target
<1>1. CASE target = <<>>
  BY <1>1, ConcatEmptySeq
<1>2. CASE target # <<>>
  <2>1. Len(target) \in Nat \ {0} /\ target[Len(target)] \in STRING
    BY <1>2, EmptySeq, ElementOfSeq
  <2>2. SubSeq(target, 1, Len(target)) = SubSeq(target, 1, Len(target) - 1) \o <<target[Len(target)]>>
    <3>1. 1 \in 1 .. Len(target) /\ Len(target) \in 1 .. Len(target)
      BY <2>1
    <3> QED
      BY <3>1, SubSeqRecursiveSecond
  <2> QED
    BY <1>2, <2>2, SubSeqFull DEF Front, Last
<1> QED
  BY <1>1, <1>2

LEMMA NextLocated == PathInv /\ Located /\ [Next]_pathVars => Located'
<1> SUFFICES ASSUME PathInv, Located, [Next]_pathVars
             PROVE  Located'
  OBVIOUS
<1>1. CASE DetectPath \/ Route \/ SplitTyped \/ AskKodi
  BY <1>1 DEF DetectPath, Route, SplitTyped, AskKodi, Split, Located
<1>2. CASE Locate
  <2>1. Target \in Seq(STRING)
    BY <1>2, TargetIsPath DEF Locate, PathInv, TypeOK
  <2>2. mount' \o name' = Target
    BY <1>2, <2>1, ParentAndName DEF Locate
  <2>3. pc' = "mount" /\ Target' = Target
    BY <1>2 DEF Locate, Target, Kind
  <2> QED
    BY <2>2, <2>3 DEF Located
<1>3. CASE MountFolder
  <2>1. /\ pc' = "play" /\ Target' = Target /\ ExportRoot' = ExportRoot
        /\ mount' = ExportRoot \o mount /\ name' = name
        /\ mount \o name = Target
    BY <1>3 DEF MountFolder, Located, Target, Kind, ExportRoot, given
  <2>2. ExportRoot \in Seq(STRING) /\ mount \in Seq(STRING) /\ name \in Seq(STRING)
    BY PathConstants, ShareRootIsPath DEF ExportRoot, PathInv, TypeOK
  <2>3. (ExportRoot \o mount) \o name = ExportRoot \o (mount \o name)
    BY <2>2, ConcatAssociative
  <2> QED
    BY <2>1, <2>3 DEF Located
<1>4. CASE UNCHANGED pathVars
  BY <1>4 DEF pathVars, Located, Target, Kind, ExportRoot, given
<1> QED
  BY <1>1, <1>2, <1>3, <1>4 DEF Next

LEMMA DiscInvariant == Spec => []DiscInv
<1>1. Init => Chosen /\ Located
  BY DEF Init, Chosen, Located
<1>2. PathInv /\ Chosen /\ Located /\ [Next]_pathVars => (Chosen /\ Located)'
  BY NextChosen, NextLocated
<1>3. PathInv /\ Chosen /\ Located => DiscInv
  BY DEF DiscInv
<1> QED
  BY <1>1, <1>2, <1>3, PathInvariant, PTL DEF Spec

\* When the share is known it is the prefix in use.
LEMMA KnownShareIsUsed ==
    ASSUME DiscInv, pc = "play", NEW f \in Places, ShareKnown(f)
    PROVE  from = f[1] /\ rel = (f[2] \o f[3]) \o f[4]
<1>1. /\ DecodeShare(file) = PathOf(f) /\ Below(PathOf(f), f[1])
      /\ After(PathOf(f), f[1]) = (f[2] \o f[3]) \o f[4]
  BY TextIsPath
<1>2. ASSUME typed = f[1]
      PROVE  from = f[1]
  BY <1>1, <1>2 DEF DiscInv, Chosen
<1>3. ASSUME autodetect, Encode(f[1]) \in sources, ~Below(PathOf(f), typed)
      PROVE  from = f[1]
  <2>1. from \in DetectPathFrom(DecodeShare(file), sources)
    BY <1>1, <1>3 DEF DiscInv, Chosen
  <2> QED
    BY <1>3, <2>1, ShareIsBroadest DEF DiscInv, PathInv
<1>4. from = f[1]
  BY <1>2, <1>3 DEF ShareKnown
<1>5. rel = After(DecodeShare(file), from)
  BY DEF DiscInv, PathInv, SplitKept
<1> QED
  BY <1>1, <1>4, <1>5

\* The export root is the typed one or the share the player lists.
LEMMA RootIsExported ==
    ASSUME TypeOK
    PROVE  ExportRoot = Root
<1>1. shares \in ShareLists /\ shares \in Seq(Seq(STRING))
  BY PathConstants DEF TypeOK
<1>2. Len(shares) \in Nat /\ DOMAIN shares = 1 .. Len(shares)
  BY <1>1, LenProperties
<1>3. CASE Exported \in ToSet(shares)
  <2>1. PICK i \in 1 .. Len(shares) : /\ shares[i] = Exported /\ Len(Exported) >= 3
                                      /\ \A j \in 1 .. i - 1 : Len(shares[j]) < 3
    BY <1>1, <1>2, <1>3, ExportedFirst
  <2>2. i \in RootRuns(shares)
    BY <2>1 DEF RootRuns
  <2>3. ASSUME NEW j \in RootRuns(shares)
        PROVE  i <= j
    <3>1. j \in 1 .. Len(shares) /\ Len(shares[j]) >= 3 /\ Len(shares[j]) \in Nat
      BY <1>1, ElementOfSeq, LenProperties DEF RootRuns
    <3>2. ~(j \in 1 .. i - 1)
      BY <2>1, <3>1
    <3> QED
      BY <1>2, <3>1, <3>2
  <2>4. FirstRootRun(shares) \in RootRuns(shares) /\ FirstRootRun(shares) <= i
    BY <2>2, <2>3 DEF FirstRootRun
  <2>5. RootRuns(shares) \subseteq Nat
    BY <1>2 DEF RootRuns
  <2>6. FirstRootRun(shares) = i
    <3>1. i <= FirstRootRun(shares)
      BY <2>3, <2>4
    <3> HIDE DEF FirstRootRun
    <3>2. FirstRootRun(shares) \in Nat /\ i \in Nat
      BY <2>2, <2>4, <2>5
    <3> QED
      BY <2>4, <3>1, <3>2
  <2>7. ShareRoot(shares) = Exported
    BY <2>1, <2>2, <2>6 DEF ShareRoot
  <2> QED
    BY <1>3, <2>7 DEF ExportRoot, Root
<1>4. CASE Exported \notin ToSet(shares)
  <2>1. \A i \in 1 .. Len(shares) : Len(shares[i]) < 3 /\ Len(shares[i]) \in Nat
    BY <1>1, <1>2, <1>4, ExportedFirst, ElementOfSeq, LenProperties
  <2>2. RootRuns(shares) = {}
    BY <2>1 DEF RootRuns
  <2> QED
    BY <1>4, <2>2 DEF ExportRoot, Root, ShareRoot
<1> QED
  BY <1>3, <1>4

\* Of two plain folders, one in the other, nothing is a disc structure's own name.
LEMMA PlainConcat ==
    ASSUME NEW b \in Seq(STRING), NEW c \in Seq(STRING), Plain(b), Plain(c)
    PROVE  Plain(b \o c)
<1>1. /\ b \o c \in Seq(STRING) /\ Len(b \o c) = Len(b) + Len(c)
      /\ Len(b) \in Nat /\ Len(c) \in Nat
      /\ \A i \in 1 .. Len(b) + Len(c) : (b \o c)[i] = IF i <= Len(b) THEN b[i] ELSE c[i - Len(b)]
  BY ConcatProperties, LenProperties
<1>2. /\ DOMAIN b = 1 .. Len(b) /\ DOMAIN c = 1 .. Len(c)
      /\ DOMAIN (b \o c) = 1 .. Len(b) + Len(c)
  BY <1>1, LenProperties
<1>3. ASSUME NEW i \in 1 .. Len(b) + Len(c)
      PROVE  (b \o c)[i] \notin DiscSegments
  <2>1. CASE i <= Len(b)
    <3>1. i \in DOMAIN b /\ (b \o c)[i] = b[i]
      BY <1>1, <1>2, <2>1
    <3> QED
      BY <3>1 DEF Plain
  <2>2. CASE ~(i <= Len(b))
    <3>1. i - Len(b) \in DOMAIN c /\ (b \o c)[i] = c[i - Len(b)]
      BY <1>1, <1>2, <2>2
    <3> QED
      BY <3>1 DEF Plain
  <2> QED
    BY <2>1, <2>2
<1> QED
  BY <1>2, <1>3 DEF Plain

\* The right disc is opened: with the share known, the folder or image that is mounted
\* and named is the title's own, whatever other sources Kodi has.
THEOREM DiscIsOpened == Spec => []OpensTheDisc
<1>1. DiscInv => OpensTheDisc
  <2> SUFFICES ASSUME DiscInv, pc = "play", NEW f \in Places, ShareKnown(f), Plain(f[2])
               PROVE  mount \o name = Root \o Wanted(f)
    BY DEF OpensTheDisc
  <2>1. /\ f[2] \in Seq(STRING) /\ f[3] \in Seq(STRING) /\ Plain(f[3])
        /\ f[4] \in Seq(STRING) /\ f[4] # <<>> /\ f[4] \in Contents
        /\ f[2] \o f[3] \in Seq(STRING)
    BY TextIsPath, PathParts
  <2>2. Plain(f[2] \o f[3])
    BY <2>1, PlainConcat
  <2>3. rel = (f[2] \o f[3]) \o f[4]
    BY KnownShareIsUsed
  <2>4. Target = IF f[4] \in Single THEN (f[2] \o f[3]) \o f[4] ELSE f[2] \o f[3]
    BY <2>1, <2>2, <2>3, TargetOfTitle
  <2>5. Wanted(f) = Target
    BY <2>1, <2>4, ConcatEmptySeq DEF Wanted
  <2> QED
    BY <2>5, RootIsExported DEF DiscInv, Located, PathInv
<1> QED
  BY <1>1, DiscInvariant, PTL

\* With the share known the handoff is never refused for its path.
THEOREM KnownShareIsMapped == Spec => []KnownShareMaps
<1>1. PathInv => KnownShareMaps
  <2> SUFFICES ASSUME PathInv, pc = "refused", NEW f \in Places, ShareKnown(f)
               PROVE  FALSE
    BY DEF KnownShareMaps
  <2>1. /\ f[1] # <<>> /\ HasSharePath(f[1])
        /\ DecodeShare(file) = PathOf(f) /\ Below(PathOf(f), f[1])
        /\ DecodeShare(Encode(f[1])) = f[1]
    BY TextIsPath, PathParts
  <2>2. CASE typed = f[1]
    BY <2>1, <2>2 DEF PathInv, RefusedUnmapped
  <2>3. CASE autodetect /\ Encode(f[1]) \in sources
    <3>1. f[1] \in Candidates(PathOf(f), sources)
      BY <2>1, <2>3 DEF Candidates
    <3> QED
      BY <2>1, <2>3, <3>1 DEF PathInv, RefusedUnmapped
  <2> QED
    BY <2>2, <2>3 DEF ShareKnown
<1> QED
  BY <1>1, PathInvariant, PTL

=============================================================================
