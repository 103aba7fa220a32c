---------------------------- MODULE Declarations ----------------------------
(***************************************************************************)
(* What Proto makes of a parsed file: every field gets the namespace and   *)
(* the package of its type, then its kind, and the messages are sorted for *)
(* the generator, which declares their structs in that order.              *)
(*                                                                         *)
(* A file is a record of its package (None, or its identifiers), its       *)
(* imports in order, kinds: the path of each type in it -> "message" or    *)
(* "enum", children: <<>>, and the path of each message with messages in   *)
(* it -> their names in order, and fields: field -> [in, type, label], in  *)
(* the path of a message, type the identifiers of a type name, label       *)
(* "repeated" or "single".  Fields of scalar types have nothing to resolve *)
(* and are left out.  An import is a record of its package and kinds: the  *)
(* names of its types -> "message" or "enum".                              *)
(***************************************************************************)
EXTENDS SortMessages, TLC

CONSTANTS Identifiers,
          Files

(* What the grammar and load_messages give: a type is in messages that are in one
   another, and each message is among the children of the one it is in. *)
TypeKinds == {"message", "enum"}

IsChild(f, path, n) ==
  LET parent == SubSeq(path, 1, n - 1)
  IN  parent \in DOMAIN f.children /\ path[n] \in Range(f.children[parent])

IsFile(f) ==
  /\ f.package \in Seq(Identifiers)
  /\ f.imports \in Seq(Range(f.imports))
  /\ \A i \in Range(f.imports) : /\ i.package \in Seq(Identifiers)
                                 /\ i.kinds \in [DOMAIN i.kinds -> TypeKinds]
  /\ f.kinds \in [DOMAIN f.kinds -> TypeKinds]
  /\ \A path \in DOMAIN f.kinds :
       /\ path \in Seq(Identifiers) \ {<<>>}
       /\ \A n \in 1 .. Len(path) : n < Len(path) \/ f.kinds[path] = "message" => IsChild(f, path, n)
  /\ \A parent \in DOMAIN f.children : parent \in Seq(Identifiers)
  /\ f.children \in [DOMAIN f.children -> Seq(Identifiers)]
  /\ \A field \in DOMAIN f.fields :
       /\ f.fields[field].in \in DOMAIN f.kinds /\ f.kinds[f.fields[field].in] = "message"
       /\ f.fields[field].type \in Seq(Identifiers) \ {<<>>}

ASSUME FilesAssumption == \A f \in Files : IsFile(f)

VARIABLES file,
          stage,        \* what Proto.__init__ does next, or "raised", "declared"
          resolved,     \* field -> [namespace, package]
          type_kind,    \* field -> "message" or "enum"
          order,        \* path -> its messages, sorted; of the groups sorted so far
          group         \* the path of the messages being sorted

declaring == <<file, stage, resolved, type_kind, order, group>>

(* Packages and types are sequences of identifiers, a namespace is a list of
   dotted names: its first is the whole package. *)
None == <<>>
Fields == DOMAIN file.fields
namespace_base == IF file.package = None THEN <<>> ELSE <<file.package>>
Dotted(path) == [i \in DOMAIN path |-> <<path[i]>>]
FullType(field) == FlattenSeq(resolved[field].namespace) \o <<Last(file.fields[field].type)>>
FullName(path) == FlattenSeq(namespace_base) \o path

NoFile == [package |-> None, imports |-> <<>>, kinds |-> <<>>,
           children |-> (<<>> :> <<>>), fields |-> <<>>]

ProtoInit ==
  /\ file = NoFile /\ resolved = <<>> /\ type_kind = <<>>
  /\ order = <<>> /\ group = <<>> /\ SortInit(0, {})

(* load_package, load_imports, load_messages, load_enums *)
Load ==
  /\ stage = "parsed" /\ stage' = "types"
  /\ file' \in Files
  /\ UNCHANGED <<resolved, type_kind, order, group, sorting>>

(* The innermost message around the field that has a type of that name; none
   of them, when the type is declared at the top of the file. *)
Scopes(field) ==
  {n \in 0 .. Len(file.fields[field].in) :
     SubSeq(file.fields[field].in, 1, n) \o file.fields[field].type \in DOMAIN file.kinds}

Imported(field) ==
  \E i \in DOMAIN file.imports :
    file.imports[i].package = file.package
      /\ Last(file.fields[field].type) \in DOMAIN file.imports[i].kinds

resolve_field_type(field) ==
  LET type == file.fields[field].type
      own(n) == [namespace |-> namespace_base \o Dotted(SubSeq(file.fields[field].in, 1, n)),
                 package |-> file.package]
  IN  IF Len(type) > 1 THEN [namespace |-> Dotted(Front(type)), package |-> Front(type)]
      ELSE IF Scopes(field) # {} THEN own(Max(Scopes(field)))
      ELSE IF Imported(field) THEN own(0)
      ELSE [namespace |-> <<>>, package |-> None]

resolve_messages_fields_types ==
  /\ stage = "types" /\ stage' = "kinds"
  /\ resolved' = [field \in Fields |-> resolve_field_type(field)]
  /\ UNCHANGED <<file, type_kind, order, group, sorting>>

(* The imports are asked first, for the name alone. *)
Answers(field) ==
  {i \in DOMAIN file.imports : /\ file.imports[i].package = resolved[field].package
                              /\ Last(file.fields[field].type) \in DOMAIN file.imports[i].kinds}

(* Mutant: the package is looked up as a message. *)
lookup_type_from_package(field) ==
  LET path == FlattenSeq(resolved[field].namespace) \o <<Last(file.fields[field].type)>>
  IN  IF path \in DOMAIN file.kinds THEN file.kinds[path] ELSE "message"

(* lookup_type starts below the package, which is one name of the namespace. *)
lookup_type(field) ==
  LET below == SubSeq(resolved[field].namespace, Len(namespace_base) + 1, Len(resolved[field].namespace))
      path == FlattenSeq(below) \o <<Last(file.fields[field].type)>>
  IN  IF path \in DOMAIN file.kinds THEN file.kinds[path] ELSE "message"

Undefined(field) == Answers(field) = {} /\ resolved[field].package # file.package

is_field_enum(field) ==
  IF Answers(field) # {}
  THEN file.imports[Min(Answers(field))].kinds[Last(file.fields[field].type)] = "enum"
  ELSE lookup_type(field) = "enum"

resolve_messages_fields_type_kinds ==
  /\ stage = "kinds"
  /\ \/ /\ \E field \in Fields : Undefined(field)
        /\ stage' = "raised" /\ UNCHANGED type_kind
     \/ /\ \A field \in Fields : ~ Undefined(field)
        /\ stage' = "sort"
        /\ type_kind' = [field \in Fields |-> IF is_field_enum(field) THEN "enum" ELSE "message"]
  /\ UNCHANGED <<file, resolved, order, group, sorting>>
-----------------------------------------------------------------------------
(* used_types: of the fields of a message and of the messages in it. *)
UsedTypes(path) ==
  {FullType(field) : field \in {f \in Fields : IsPrefix(path, file.fields[f].in)}}

Member(parent, i) == Append(parent, file.children[parent][i])

Uses(parent) ==
  LET members == DOMAIN file.children[parent]
  IN  {pair \in members \X members :
         FullName(Member(parent, pair[2])) \in UsedTypes(Member(parent, pair[1]))}

Unsorted == DOMAIN file.children \ DOMAIN order

(* The messages of a message are sorted before it takes its place. *)
sort_messages_by_usage ==
  /\ stage = "sort" /\ Unsorted # {}
  /\ \E parent \in Unsorted :
       /\ \A other \in Unsorted : Len(other) <= Len(parent)
       /\ group' = parent
       /\ count' = Len(file.children[parent]) /\ uses' = Uses(parent)
  /\ reversed_sorted' = <<>> /\ stage' = "sorting"
  /\ UNCHANGED <<file, resolved, type_kind, order>>

SortStep == stage = "sorting" /\ InsertMessage /\ UNCHANGED declaring

With(path, messages) ==
  [other \in DOMAIN order \cup {path} |-> IF other = path THEN messages ELSE order[other]]

(* Mutant: the first of the reversed list, the last inserted there, is lost. *)
Reversed_up_to_first ==
  /\ stage = "sorting" /\ Sorted
  /\ order' = With(group, [i \in 1 .. count - 1 |-> file.children[group][Reverse(reversed_sorted)[i]]])
  /\ stage' = "sort"
  /\ UNCHANGED <<file, resolved, type_kind, group, sorting>>

(* list(reversed(reversed_sorted_messages)) *)
Reversed ==
  /\ stage = "sorting" /\ Sorted
  /\ order' = With(group, [i \in 1 .. count |-> file.children[group][Reverse(reversed_sorted)[i]]])
  /\ stage' = "sort"
  /\ UNCHANGED <<file, resolved, type_kind, group, sorting>>

Declare ==
  /\ stage = "sort" /\ Unsorted = {} /\ stage' = "declared"
  /\ UNCHANGED <<file, resolved, type_kind, order, group, sorting>>

(* Mutant: a message is declared before those in it. *)
DeclaredBefore_outer_first(p, q) ==
  \/ IsStrictPrefix(p, q)
  \/ \E n \in 0 .. Min({Len(p), Len(q)}) - 1 :
       /\ SubSeq(p, 1, n) = SubSeq(q, 1, n)
       /\ \E i, j \in DOMAIN order[SubSeq(p, 1, n)] :
            i < j /\ order[SubSeq(p, 1, n)][i] = p[n + 1] /\ order[SubSeq(p, 1, n)][j] = q[n + 1]

(* The order of generate_types: the messages of a message, then its own struct
   and the struct for repeated fields of it. *)
DeclaredBefore(p, q) ==
  \/ IsStrictPrefix(q, p)
  \/ \E n \in 0 .. Min({Len(p), Len(q)}) - 1 :
       /\ SubSeq(p, 1, n) = SubSeq(q, 1, n)
       /\ \E i, j \in DOMAIN order[SubSeq(p, 1, n)] :
            i < j /\ order[SubSeq(p, 1, n)][i] = p[n + 1] /\ order[SubSeq(p, 1, n)][j] = q[n + 1]

ProtoNext ==
  \/ Load
  \/ resolve_messages_fields_types \/ resolve_messages_fields_type_kinds
  \/ sort_messages_by_usage \/ SortStep \/ Reversed \/ Declare
=============================================================================
