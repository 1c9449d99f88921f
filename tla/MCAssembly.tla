------------------------------ MODULE MCAssembly ------------------------------
(* Instances of Assembly: a package with a library, one with programs and a    *)
(* udeb with data.                                                             *)
EXTENDS Assembly

LibSo == <<"source", "lib.so">>
Prog == <<"source", "prog">>
Other == <<"source", "other">>      \* stripped already
Text == <<"source", "text">>
Sources == {LibSo, Prog, Other, Text}

ElfFiles ==
    [f \in {LibSo, Prog, Other} |->
        [stripped |-> f = Other, id |-> f[2], library |-> f = LibSo]]

Order == <<"lib", "prog", "data-udeb">>
OtherOrder == <<"prog", "lib">>

\* Paths by package: shared data; a program twice in a package; a library in two
\* packages.
Data(f) == [x \in {"doc"} |-> f]
With(f, path, file) == [x \in DOMAIN f \cup {path} |-> IF x = path THEN file ELSE f[x]]
Tree(lib, prog) == [p \in Packages |-> IF p = "lib" THEN lib
                                       ELSE IF p = "prog" THEN prog ELSE Data(Text)]
LibTree == With(Data(Text), "so", LibSo)
ProgTree == With(Data(Text), "bin", Prog)
Installations ==
    {Tree(LibTree, ProgTree),
     Tree(LibTree, With(ProgTree, "bin2", Prog)),
     Tree(LibTree, With(With(Data(Text), "bin", Other), "plugin", LibSo)),
     Tree(With(LibTree, "bin", Other), With(ProgTree, "bin2", Other))}
TwoPrograms == {Tree(With(LibTree, "bin", Other), ProgTree)}

D(id, service, packages, wants, scripts) ==
    [id |-> id, service |-> service, packages |-> packages, triggers |-> wants,
     scripts |-> scripts]
Detectors ==
    <<D("systemd", TRUE, {"prog"}, {}, {"postinst", "postrm"}),
      D("sysvinit", TRUE, {"prog"}, {}, {"preinst", "postinst", "postrm"}),
      D("tmpfiles", FALSE, {"prog", "data-udeb"}, {}, {"postinst"}),
      D("initramfs", FALSE, {"lib"}, {"update-initramfs"}, {}),
      D("pam-auth-update", FALSE, {"prog"}, {}, {"postinst", "prerm"}),
      D("dpkg-shlibdeps", FALSE, {"lib", "prog"}, {}, {})>>
=============================================================================
