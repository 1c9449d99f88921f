-------------------------- MODULE MCLanguageServer ---------------------------
(* Instances of LanguageServer: a changelog, a control file and a file      *)
(* without diagnostics.                                                     *)
EXTENDS LanguageServer

\* Nothing to say; something in the first part only; something in each part.
Clean == [id |-> "clean", parts |-> <<0>>]
Long == [id |-> "long", parts |-> <<1, 0, 1>>]
Texts == {Clean, [id |-> "early", parts |-> <<1, 0>>], Long}
TwoTexts == {Clean, Long}
CleanOnDisk == [u \in Uri |-> Clean]

\* Two versions of a, the older one last, and again; b provides what c is.
Packages ==
    <<[name |-> "a", version |-> 2, provides |-> {"v"}],
      [name |-> "a", version |-> 1, provides |-> {"w"}],
      [name |-> "b", version |-> 1, provides |-> {"c", "v"}],
      [name |-> "c", version |-> 1, provides |-> {}]>>
OnePackage == SubSeq(Packages, 1, 1)
=============================================================================
