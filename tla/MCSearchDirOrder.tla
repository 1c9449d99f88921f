-------------------------- MODULE MCSearchDirOrder --------------------------
(***************************************************************************)
(* SearchDirOrder for three packages that may each list up to three of      *)
(* three directories, the source root among them, in any order; packages    *)
(* without a list use the default.                                          *)
(***************************************************************************)
EXTENDS SearchDirOrder

MCPackage == {"p", "q", "r"}
MCDir == {"tmp", "udeb", "opt", "."}

MCDefaultDirs == <<"tmp">>

Lists == UNION {[1 .. n -> {"tmp", "udeb", "opt"}] : n \in 0 .. 2}
         \cup {<<"udeb", "opt", "tmp">>, <<"opt", "tmp", "udeb">>, <<".", "tmp">>,
               <<"opt", "tmp", "opt">>}
MCRequests ==
    UNION {[asking -> Lists] : asking \in {{}, {"p"}, {"p", "q"}}}
    \cup {[x \in MCPackage |-> f[x]] :
             f \in [MCPackage -> {<<"tmp", "udeb">>, <<"udeb", "opt">>, <<"opt", "tmp">>,
                                  <<"tmp", "opt">>, <<"opt">>, <<"opt", ".", "udeb">>}]}
=============================================================================
