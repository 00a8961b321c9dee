------------------------------ MODULE NuNames ------------------------------
(***************************************************************************)
(* File names of nulib2 (Filename.c, SysUtils.c): the name of a record is  *)
(* made into a local pathname that also carries its file type, and back.   *)
(* A name is a sequence of characters; the suffix "_rsrc_" counts as one.  *)
(* A type is the sequence of the hex digits of the file and aux type: of   *)
(* ShortType digits for ProDOS types (6) and LongType for others (16).      *)
(* Of the escapes only "%2f" is needed, which stands for "/": names made    *)
(* with -e have no other, for NormalizeChar makes no other.                 *)
(***************************************************************************)
EXTENDS Naturals, Sequences, SequencesExt, FiniteSetsExt

CONSTANTS
    Chars,          \* the characters of names
    HexDigits,      \* characters that are hex digits, "2" and "f" among them
    Decimals,       \* those that are decimal digits
    ShortType, LongType,
    NoType,         \* the type 0 of a file nothing is known about
    TextType,       \* TXT
    TypeName,       \* extension of a type; <<>> for NON, "$xx" and "???"
    ExtType,        \* extension -> type, the tables LookupExtension searches
    MaxExtLen       \* kMaxExtLen (5)

ASSUME NamesAssumption ==
    /\ {"/", "%", "#", ".", "_", "_rsrc_", "r", "i", "P", "O"} \cup HexDigits \subseteq Chars
    /\ {"2", "f"} \subseteq HexDigits /\ Decimals \subseteq HexDigits
    /\ HexDigits \cap {"/", "%", "#", ".", "r", "i"} = {}
    /\ ShortType \in Nat /\ LongType \in Nat /\ 0 < ShortType /\ ShortType < LongType
    /\ {NoType, TextType} \subseteq DOMAIN TypeName
    /\ DOMAIN TypeName \subseteq Seq(Chars)
    /\ \A type \in DOMAIN TypeName : TypeName[type] \in Seq(Chars)
    /\ \A ext \in DOMAIN ExtType : ExtType[ext] \in DOMAIN TypeName

Sep == "/"          \* the local path separator
StorageSep == ":"   \* kStorageFssep, that of records nulib2 makes
ResourceStr == "_rsrc_"

Lasts(s, c) == {i \in DOMAIN s : s[i] = c}
After(s, i) == SubSeq(s, i + 1, Len(s))
From(s, i, n) == IF i + n <= Len(s) THEN SubSeq(s, i + 1, i + n) ELSE <<>>

FilenameOnly(path) ==
    IF Lasts(path, Sep) = {} THEN path ELSE After(path, Max(Lasts(path, Sep)))

\* What follows the last "." of the file name, <<>> if nothing does.
FindExtension(path) ==
    LET name == FilenameOnly(path)
    IN  IF Lasts(name, ".") = {} THEN <<>> ELSE After(name, Max(Lasts(name, ".")))

(***************************************************************************)
(* To the file system.  opt.preserve is -e, opt.extended -ee, opt.junk -j.  *)
(***************************************************************************)
\* UNIXNormalizeFileName, for one character of a component.
NormalizeChar(c, preserve) ==
    CASE c = "%" /\ preserve  -> <<"%", "%">>
      [] c = "/" /\ preserve  -> <<"%", "2", "f">>
      [] c = "/" /\ ~preserve -> <<"_">>
      [] OTHER                -> <<c>>

\* The extension -ee gives a file: its own unless that would be misread, else
\* that of its type; text files and disk images always get that of their type.
ExtendedExt(path, type, kind) ==
    LET own == IF type = TextType \/ kind = "disk" THEN <<>> ELSE FindExtension(path)
    IN  IF own # <<>>
        THEN IF \/ Len(own) >= MaxExtLen
                \/ Range(own) \subseteq Decimals
                \/ "#" \in Range(own)
             THEN <<>> ELSE own
        ELSE IF kind = "disk" THEN <<"P", "O">>
        ELSE TypeName[type]

AddPreservationString(path, type, kind, opt) ==
    LET ext == ExtendedExt(path, type, kind)
    IN  path \o <<"#">> \o type
        \o (CASE kind = "rsrc" -> <<"r">> [] kind = "disk" -> <<"i">> [] OTHER -> <<>>)
        \o (IF opt.extended /\ ext # <<>> THEN <<".">> \o ext ELSE <<>>)

\* sep separates the components of name.  No component is empty but the first.
NormalizePath(name, sep, type, kind, opt) ==
    LET lead == Max({n \in 0 .. Len(name) : \A i \in 1 .. n : name[i] = sep})
        path == FlattenSeq([i \in 1 .. Len(name) - lead |->
                    IF name[i + lead] = sep THEN <<Sep>>
                    ELSE NormalizeChar(name[i + lead], opt.preserve)])
        full == IF opt.preserve THEN AddPreservationString(path, type, kind, opt)
                ELSE IF kind = "rsrc" THEN Append(path, ResourceStr)
                ELSE path
    IN  IF opt.junk THEN FilenameOnly(full) ELSE full

(***************************************************************************)
(* And back.                                                               *)
(***************************************************************************)
\* Where the last "#" is followed by a type and by nothing else but a flag and
\* an extension.
ExtractPreservationString(path) ==
    LET at     == Max(Lasts(path, "#"))
        digits == Max({n \in 0 .. Len(path) - at :
                          \A i \in 1 .. n : path[at + i] \in HexDigits})
        flag   == From(path, at + digits, 1)
        kind   == CASE flag = <<"r">> -> "rsrc" [] flag = <<"i">> -> "disk"
                    [] OTHER -> "data"
        rest   == After(path, at + digits + (IF kind = "data" THEN 0 ELSE 1))
    IN  IF /\ Lasts(path, "#") # {}
           /\ digits \in {ShortType, LongType}
           /\ rest = <<>> \/ rest[1] = "."
        THEN [found |-> TRUE, path |-> SubSeq(path, 1, at - 1),
              type |-> From(path, at, digits), kind |-> kind]
        ELSE [found |-> FALSE, path |-> path, type |-> NoType, kind |-> "data"]

\* mutant: "%%" is not seen as one character
DenormalizePathByOne(path) ==
    LET from[i \in 1 .. Len(path) + 3] ==
            IF i > Len(path) THEN <<>>
            ELSE IF From(path, i - 1, 3) = <<"%", "2", "f">> THEN <<Sep>> \o from[i + 3]
            ELSE <<path[i]>> \o from[i + 1]
    IN  from[1]

DenormalizePath(path) ==
    LET from[i \in 1 .. Len(path) + 3] ==
            IF i > Len(path) THEN <<>>
            ELSE IF From(path, i - 1, 2) = <<"%", "%">> THEN <<"%">> \o from[i + 2]
            ELSE IF From(path, i - 1, 3) = <<"%", "2", "f">> THEN <<Sep>> \o from[i + 3]
            ELSE <<path[i]>> \o from[i + 1]
    IN  from[1]

\* InterpretExtension and LookupExtension.
InterpretExtension(path) ==
    IF FindExtension(path) \in DOMAIN ExtType THEN ExtType[FindExtension(path)] ELSE NoType

\* Leading "/" and "./" are no part of a name.
Sanitized(path) ==
    LET from[i \in 1 .. Len(path) + 1] ==
            IF From(path, i - 1, 1) = <<Sep>> THEN from[i + 1]
            ELSE IF From(path, i - 1, 2) = <<".", Sep>> THEN from[i + 2]
            ELSE After(path, i - 1)
    IN  from[1]

HasDotDot(path) ==
    \/ From(path, 0, 2) = <<".", ".">>
    \/ \E i \in 0 .. Len(path) : From(path, i, 4) = <<Sep, ".", ".", Sep>>

\* GetFileDetails: the name, type and kind a local file is added under.
GetFileDetails(path, opt) ==
    LET kept == IF opt.preserve THEN ExtractPreservationString(path)
                ELSE [found |-> FALSE, path |-> path, type |-> NoType, kind |-> "data"]
        live == Sanitized(IF kept.found THEN DenormalizePath(kept.path) ELSE kept.path)
        name == IF opt.junk \/ HasDotDot(live) THEN FilenameOnly(live) ELSE live
    IN  [name |-> [i \in DOMAIN name |-> CASE name[i] = Sep -> StorageSep
                                           [] name[i] = StorageSep -> "X"
                                           [] OTHER -> name[i]],
         type |-> IF opt.extended /\ ~kept.found THEN InterpretExtension(kept.path)
                  ELSE kept.type,
         kind |-> kept.kind]
=============================================================================
