----------------------------- MODULE MCNuLib2 -----------------------------
(***************************************************************************)
(* Small sessions for NuLib2.  Three kinds: every short name through an    *)
(* extraction and an add; Binary II libraries, sound and not, with every   *)
(* command; NuFX archives with files in the way.                           *)
(***************************************************************************)
EXTENDS NuLib2

MCChars == {"0", "2", "f", "d", "q", "t", "r", "i", "P", "O", "X",
            "/", ":", "%", "#", ".", "_", "_rsrc_"}
MCHex == {"0", "2", "f"}
MCDecimals == {"0", "2"}
NON == <<"0", "0">>
TXT == <<"2", "f">>
BIN == <<"2", "2">>
HFS == <<"2", "f", "2">>
MCTypeName == (NON :> <<>>) @@ (TXT :> <<"t">>) @@ (BIN :> <<"f">>) @@ (HFS :> <<>>)
MCExtType == (<<"t">> :> TXT) @@ (<<"f">> :> BIN)

Options(flags, specs) ==
    [preserve |-> "e" \in flags \/ "ee" \in flags, extended |-> "ee" \in flags,
     junk |-> "j" \in flags, over |-> "s" \in flags, update |-> "u" \in flags,
     fresh |-> "f" \in flags, recurse |-> "r" \in flags, comments |-> "c" \in flags,
     specs |-> specs]
NoMore == [cmd |-> "none"]
AddWith(flags) == Options(flags, {}) @@ [cmd |-> "add"]
DeleteWith(flags, specs) == Options(flags, specs) @@ [cmd |-> "delete"]
Held(forks, age) == [type |-> NON, forks |-> forks, age |-> age]
Left(age) == File(<<0, "data">>, TRUE, age)

(* Names.  NufxLib has no empty component but leading ones; UNIX wants the *)
(* path to be that of a file.                                              *)
NameChars == {"f", "2", "%", "#", ".", "/", ":"}
ShortNames == UNION {[1 .. len -> NameChars] : len \in 1 .. 3}
Usable(name, sep) ==
    /\ name[Len(name)] # sep
    /\ \A i \in 2 .. Len(name) - 1 : name[i] = sep => name[i + 1] # sep /\ name[i - 1] # sep
    /\ Len(name) > 1 => ~(name[1] = sep /\ name[2] = sep)
    /\ SelectSeq(name, LAMBDA c : c # sep) # <<".">>
    /\ SelectSeq(name, LAMBDA c : c # sep) # <<".", ".">>
OneFile(name, sep, type, kind) ==
    [records |-> <<[name |-> name, sep |-> sep, type |-> type, kinds |-> <<kind>>,
                    comment |-> FALSE, age |-> 1]>>,
     stdin |-> FALSE]
NameSessions ==
    {[kind |-> "nufx", cmd |-> "x", source |-> OneFile(name, sep, variant[1], variant[2]),
      opt |-> Options({variant[3]}, {}), before |-> <<>>, then |-> AddWith({variant[3], "r"}),
      archive |-> <<>>] :
        <<name, sep, variant>> \in
           {x \in ShortNames \X {"/", ":"} \X
                {<<NON, "data", "ee">>, <<TXT, "data", "ee">>, <<BIN, "rsrc", "ee">>,
                 <<HFS, "disk", "ee">>, <<HFS, "data", "e">>, <<BIN, "rsrc", "e">>} :
                Usable(x[1], x[2])}}

(* Libraries                                                               *)
Plain(name, eof, follow) ==
    [name |-> name, type |-> BIN, dir |-> FALSE, eof |-> eof, follow |-> follow,
     sq |-> <<>>, good |-> TRUE]
Folder(name, follow) == [Plain(name, 4, follow) EXCEPT !.dir = TRUE]
Squeezed(name, eof, follow, sq) == [Plain(name, eof, follow) EXCEPT !.sq = sq]

D == <<"d">>
DF == <<"d", "/", "f">>
F == <<"f">>
FQQ == <<"f", ".", "q", "q">>

Size(entries) ==
    BlockSize * MapThenSumSet(LAMBDA j : 1 + Blocks(RealEOF(entries[j])), DOMAIN entries)
Long == <<3, 2, 2, 2, 2, 2, 1, 2, 2, 2, 1>>
Chains ==
    {<<Folder(D, 2), Plain(DF, 9, 1), Squeezed(FQQ, 22, 0, Long)>>,
     <<Squeezed(FQQ, 6, 2, <<3, 1, 2>>), Plain(<<"2">>, 0, 1), Plain(F, 6, 0)>>,
     <<Plain(F, 3, 2), Plain(F, 8, 0)>>}
Damaged ==
    {<<Squeezed(F, 22, 1, <<3, 1, 2>>), Plain(<<"2">>, 3, 0)>>,
     <<Squeezed(F, 22, 1, <<9, 1>>), Plain(<<"2">>, 3, 0)>>,
     <<Squeezed(F, 7, 1, <<3, 2, 2, 2>>), Plain(<<"2">>, 3, 0)>>,
     <<[Squeezed(F, 7, 1, <<3, 2, 2>>) EXCEPT !.good = FALSE], Plain(<<"2">>, 3, 0)>>,
     <<Squeezed(F, 2, 0, <<2>>)>>, <<Squeezed(FQQ, 6, 0, <<3, 1, 2>>)>>,
     <<Plain(F, 3, 1)>>}
Libraries ==
    {[entries |-> es, size |-> Size(es) - short, stdin |-> stdin] :
        <<es, short, stdin>> \in Chains \X {0, 2, 1, 5, -6} \X BOOLEAN}
    \cup {[entries |-> es, size |-> Size(es) - short, stdin |-> TRUE] :
            <<es, short>> \in Damaged \X {0, 1, -6}}
    \* cut in the short last block of an entry with another to follow
    \cup {[entries |-> es, size |-> 17, stdin |-> stdin] :
            <<es, stdin>> \in Chains \X BOOLEAN}
LibrarySessions ==
    {[kind |-> "bny", cmd |-> "x", source |-> lib, opt |-> Options(v[1], v[2]),
      before |-> v[3], then |-> NoMore, archive |-> <<>>] :
        <<lib, v>> \in Libraries \X
           {<<{}, {}, <<>>>>, <<{"e", "s", "r"}, {D}, (F :> Left(1)) @@ (D :> Dir)>>,
            <<{"s", "j"}, {}, F :> Left(1)>>, <<{}, {F, DF}, F :> Left(1)>>,
            <<{}, {FQQ}, <<>>>>, <<{}, {D, F}, D :> Left(1)>>, <<{"u"}, {}, <<>>>>}}
    \cup {[kind |-> "bny", cmd |-> cmd, source |-> lib, opt |-> Options({}, specs),
           before |-> <<>>, then |-> NoMore, archive |-> <<>>] :
            <<lib, cmd, specs>> \in Libraries \X {"p", "i", "t"} \X {{}, {F, D}}}

(* Archives.  Forked files; two names that are one with -j; comments.      *)
Rec(name, kinds, comment, age) ==
    [name |-> name, sep |-> ":", type |-> BIN, kinds |-> kinds, comment |-> comment, age |-> age]
NuFXSources ==
    {<<Rec(F, <<"data", "rsrc">>, TRUE, 2), Rec(<<"d", ":", "f">>, <<"data">>, FALSE, 2)>>}
Before ==
    {<<>>, (F :> Left(1)) @@ (D :> Dir) @@ (DF :> Left(3)), (F :> Dir) @@ (D :> Left(1))}
NuFXSessions ==
    {[kind |-> "nufx", cmd |-> "x", source |-> [records |-> rs, stdin |-> v[2]],
      opt |-> Options(v[1], {}), before |-> before, then |-> v[3],
      archive |-> (F :> Held([kind \in {"data", "rsrc"} |-> <<0, "archive">>], 2))
                  @@ (<<"2">> :> Held("data" :> <<0, "archive">>, 2))] :
        <<rs, before, v>> \in NuFXSources \X Before \X
           {<<{}, FALSE, AddWith({"r"})>>, <<{"j"}, FALSE, AddWith({})>>,
            <<{"e"}, FALSE, AddWith({"e", "j", "r"})>>, <<{"e", "s"}, FALSE, AddWith({"e", "u", "r"})>>,
            <<{"u"}, FALSE, AddWith({"u", "r"})>>, <<{"f"}, FALSE, AddWith({"f", "r"})>>,
            <<{"c"}, FALSE, DeleteWith({"r"}, {F})>>, <<{"j"}, TRUE, NoMore>>,
            <<{"c"}, TRUE, NoMore>>}}
    \cup {[kind |-> "nufx", cmd |-> cmd, source |-> [records |-> rs, stdin |-> FALSE],
           opt |-> Options({}, {F}), before |-> <<>>, then |-> DeleteWith({}, {F}),
           archive |-> F :> Held("data" :> <<0, "archive">>, 2)] :
            <<rs, cmd>> \in NuFXSources \X {"p", "i"}}

MCSessions == NameSessions \cup LibrarySessions \cup NuFXSessions
MCRenameTo == {DF, <<"2">>, <<"0", "/", "2">>}
=============================================================================
