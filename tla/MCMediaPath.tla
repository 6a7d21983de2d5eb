---------------------------- MODULE MCMediaPath ----------------------------
(***************************************************************************)
(* A library on one NAS for TLC: the share "media", a source nested in it, *)
(* a sibling share whose name is URL-encoded, the host alone, and a local  *)
(* copy.                                                                   *)
(***************************************************************************)
EXTENDS MediaLibrary

Share == <<"nas", "media">>
SiblingShare == <<"nas", "my films">>
LocalShare == <<"disk", "media">>
MCShares == {Share, SiblingShare, LocalShare}

\* A library with a disc structure's own name holds only complete discs.
MCLibraries == {<<>>, <<"my films">>, <<"my films", "bdmv">>}
MCTitles == {<<>>, <<"dune">>}
MCStructures == {<<"bdmv", "index.bdmv">>, <<"bdmv", "stream", "0.m2ts">>, <<"video_ts", "v.ifo">>}
MCLoose == {<<"index.bdmv">>}
MCSingle == {<<"dune.iso">>, <<"bdmv", "dune.iso">>, <<"dune.mkv">>}
MCEncoded == [c \in {"my films"} |-> "my%20films"]

MCFiles == {Encode(PathOf(f)) : f \in Library}
MCRoots == {Share, Encode(Share \o <<"my films">>), Share \o <<"dune.iso">>,
            Encode(SiblingShare), <<"nas">>, LocalShare}
MCExports == {<<>>, <<"srv", "nfs", "media">>}
MCExported == <<"srv", "nfs", "other">>
MCShareLists == {<<>>, << <<"HTTP", "1.1">>, MCExported, <<"srv", "nfs", "third">> >>, << <<"media">> >>}
MCHosts == {"nas"}
MCDecoded == [c \in {"my%20films"} |-> "my films"]
MCIsoNames == {"dune.iso"}
MCBdmvNames == {"index.bdmv"}
=============================================================================
