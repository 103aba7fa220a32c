------------------------------ MODULE Frontend ------------------------------
(***************************************************************************)
(* parse_file: a text without its comments is parsed to a file, whose      *)
(* fields are resolved and whose messages are sorted for the generator.    *)
(* The grammar is the textparser library's and external: what the parser   *)
(* makes of a text is any of Files.                                        *)
(***************************************************************************)
EXTENDS Comments, Declarations

frontend == <<comments, declaring, sorting>>

Init ==
  /\ CommentsInit
  /\ stage = "text" /\ ProtoInit

(* The text is not looked at again. *)
Parse ==
  /\ stage = "text" /\ status = "ended" /\ stage' = "parsed"
  /\ text' = <<>> /\ scan' = 0 /\ start_offset' = 0 /\ non_comment_offset' = 0 /\ chunks' = <<>>
  /\ in_single_line_comment' = FALSE /\ in_multi_line_comment' = FALSE
  /\ UNCHANGED <<status, file, resolved, type_kind, order, group, sorting>>

Next ==
  \/ stage = "text" /\ ignore_comments /\ UNCHANGED <<declaring, sorting>>
  \/ Parse
  \/ stage # "text" /\ ProtoNext /\ UNCHANGED comments

Spec == Init /\ [][Next]_frontend
-----------------------------------------------------------------------------
TypeOK ==
  /\ status \in {"scanning", "ended", "raised"}
  /\ start_offset \in 0 .. Len(text) /\ non_comment_offset \in 0 .. Len(text)
  /\ stage \in {"text", "parsed", "types", "kinds", "sort", "sorting", "raised", "declared"}
  /\ stage \in {"sort", "sorting", "declared"} => DOMAIN type_kind = Fields
  /\ \A i, j \in DOMAIN reversed_sorted : reversed_sorted[i] = reversed_sorted[j] => i = j
  /\ Range(reversed_sorted) = 1 .. Len(reversed_sorted) /\ Len(reversed_sorted) <= count
  /\ \A parent \in DOMAIN order : Range(order[parent]) = Range(file.children[parent])

(* The kinds of the types that have the full name a field's type was given. *)
Denoted(field) ==
  {file.kinds[path] : path \in {p \in DOMAIN file.kinds : FullName(p) = FullType(field)}} \cup
  UNION {{i.kinds[name] : name \in {n \in DOMAIN i.kinds : i.package \o <<n>> = FullType(field)}} :
           i \in Range(file.imports)}

(* A nested type whose name an import of the package has too: the import answers,
   which is asked for the name alone. *)
Shadowed(field) ==
  /\ Len(file.fields[field].type) = 1 /\ Answers(field) # {}
  /\ Len(resolved[field].namespace) > Len(namespace_base)

(* A type after the package of this file, which is of several identifiers:
   namespace_base is one of the names in front, and the others are looked up as
   messages. *)
DottedQualified(field) ==
  Len(file.fields[field].type) > 1 /\ Len(file.package) > 1 /\ Answers(field) = {}

KindAt(path) == IF path \in DOMAIN file.kinds THEN file.kinds[path] ELSE "message"
OrMessage(kinds) == IF kinds = {} THEN {"message"} ELSE kinds

(* The name of a type in a message of this file: package.Message.Type. *)
IntoMessage(field) ==
  \E path \in DOMAIN file.kinds : Len(path) > 1 /\ FullName(path) = FullType(field)

(* is_field_enum and lookup_type, for every file: in a file that is accepted a field
   has the kind of the very type whose name the generated code will use for it, in
   whatever scope or file that is declared (or of one of them, for a name declared
   twice).  The rest are the wrong answers the code gives: message, when nothing has
   the name; the first import's kind, for a nested type with the name of an imported
   one; and that of the type at the rest of the package, for a package of several
   identifiers.  A file is refused only for a name that nothing has, or one that
   reaches into a message. *)
KindsAnswered ==
  /\ stage \in {"sort", "sorting", "declared"} => \A field \in Fields :
       LET name == Last(file.fields[field].type)
       IN  CASE Shadowed(field) -> type_kind[field] = file.imports[Min(Answers(field))].kinds[name]
             [] DottedQualified(field) -> type_kind[field] = KindAt(Append(Tail(file.package), name))
             [] OTHER -> type_kind[field] \in OrMessage(Denoted(field))
  /\ stage = "raised" => \E field \in Fields : Denoted(field) = {} \/ IntoMessage(field)

(* "'...' is not defined.": in a file that is not refused with these words every
   field has a type that is declared somewhere, and its kind is that of the type. *)
KindsAreRight ==
  stage \in {"sort", "sorting", "declared"} => \A field \in Fields :
    type_kind[field] \in Denoted(field)

(* Messages are in structs by value where they are repeated: the struct with the
   pointer and the length has to be declared before.  The pairs of messages of
   this file with one held by the other. *)
Held ==
  {pair \in (DOMAIN file.kinds) \X (DOMAIN file.kinds) :
     /\ file.kinds[pair[2]] = "message"
     /\ \E field \in Fields :
          /\ file.fields[field].in = pair[1] /\ file.fields[field].label = "repeated"
          /\ type_kind[field] = "message" /\ resolved[field].package = file.package
          /\ FullType(field) = FullName(pair[2])}

(* The messages that p and q are, or are in, where their ways part. *)
GuaranteedAt(p, q, n) ==
  LET parent == SubSeq(p, 1, n)
      number(name) == CHOOSE i \in DOMAIN file.children[parent] : file.children[parent][i] = name
      u == number(p[n + 1])  t == number(q[n + 1])
  IN  u < t \/ \A earlier \in 1 .. u - 1 : <<earlier, u>> \notin Uses(parent)

(* In the generated header the messages of a message are declared before it, and
   of two others the one that is held before the one that holds it, in every
   nesting, if the order in the file guarantees it.  A message that holds one it
   is in is out of the question. *)
TypesDeclaredFirst ==
  stage = "declared" => \A pair \in Held :
    LET p == pair[1]  q == pair[2]
        n == Len(LongestCommonPrefix({p, q}))
    IN  \/ IsPrefix(q, p)
        \/ n < Len(p) /\ n < Len(q) /\ ~ GuaranteedAt(p, q, n)
        \/ DeclaredBefore(q, p)

(* The uses of a group have no cycle: every set of its messages has one that uses
   no other. *)
Acyclic(parent) ==
  \A S \in SUBSET (DOMAIN file.children[parent]) :
    S = {} \/ \E u \in S : \A t \in S \ {u} : <<u, t>> \notin Uses(parent)

(* sort_messages_by_usage inserts a message "first in the reversed list if there
   are no types using this type", so that it is declared last: a message is
   declared before those that hold it, when no cycle stands against it. *)
TypesBeforeUses ==
  stage = "declared" /\ (\A parent \in DOMAIN file.children : Acyclic(parent)) =>
    \A pair \in Held : IsPrefix(pair[2], pair[1]) \/ DeclaredBefore(pair[2], pair[1])
=============================================================================
