------------------------------- MODULE MCBuilds ------------------------------
(***************************************************************************)
(* Instances of Builds: a source with the packages p (arch: any), d (arch:   *)
(* all), the udeb u, and f for another architecture.                        *)
(***************************************************************************)
EXTENDS Builds

MCArchAll == {"d"}
MCArchAny == {"p", "u"}
MCOther == {"f"}
MCUdeb == {"u"}
MCNumbered == <<"bno_0", "bno_1", "bno_2">>

Var(v, x) == [w \in {v} |-> <<x>>]
NoVars == [w \in {} |-> <<>>]
MCBaseEnv == [v \in {"XDG_CACHE_HOME", "PATH"} |-> <<v>>]

\* Sets what dpkg-buildflags looks at; takes its answer away; overrules both.
Appends == [set |-> Var("DEB_CFLAGS_APPEND", "-O0"), override |-> NoVars, unset |-> {"PATH"}]
Overrules == [set |-> NoVars, override |-> Var("DEB_CFLAGS_APPEND", "-O0"), unset |-> {}]
Unsets == [set |-> NoVars, override |-> Var("V", "1"), unset |-> {"CFLAGS"}]

R(system, name, for) ==
    [system |-> system, name |-> name, for |-> for, holds |-> TRUE, buildDir |-> "",
     inSource |-> FALSE, directory |-> ".", direct |-> FALSE, env |-> Plain]
Given(rs) == [given |-> TRUE, rules |-> rs, upstream |-> {"configure.ac"}]
Detected(files) == [given |-> FALSE, rules |-> <<>>, upstream |-> files]
Debs == {"p", "d", "f"}

MCManifests == {
    Detected({}), Detected({"Makefile.PL"}), Detected({"Makefile"}), Detected({"setup.py"}),
    Detected({"configure.ac", "Makefile"}), Detected({"Build.PL", "Makefile.PL"}),
    Detected({"main.pro"}), Detected({"meson.build"}),
    Given(<<[R("autoconf", "x", Debs) EXCEPT !.env = Appends]>>),
    Given(<<[R("autoconf", "", Debs) EXCEPT !.env = Unsets],
            [R("autoconf", "", {"u"}) EXCEPT !.env = Overrules],
            [R("perl-build", "", Debs) EXCEPT !.env = Appends]>>),
    Given(<<R("autoconf", "", Debs), R("autoconf", "", {"u"})>>),
    Given(<<R("autoconf", "p", {"d"}), R("autoconf", "", {"p"}),
            [R("debhelper", "", {"p"}) EXCEPT !.direct = TRUE, !.buildDir = "b"]>>),
    Given(<<[R("autoconf", "", {"d"}) EXCEPT !.inSource = TRUE, !.direct = TRUE],
            R("debhelper", "", {"d", "p"}), [R("meson", "", {"u"}) EXCEPT !.holds = FALSE]>>),
    Given(<<R("make", "", {"p"}), R("cmake", "", {"d"})>>),
    Given(<<R("qmake", "", {"p"}), [R("cmake", "", {"f"}) EXCEPT !.buildDir = "b"],
            [R("qmake6", "", {"d"}) EXCEPT !.inSource = TRUE]>>),
    Given(<<R("autoconf", "", {"d"}), [R("meson", "", {"p"}) EXCEPT !.inSource = TRUE]>>)}

=============================================================================
