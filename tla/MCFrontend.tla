----------------------------- MODULE MCFrontend -----------------------------
EXTENDS Frontend

MCCharacters == {"/", "*", NL, "x"}
MCTexts == UNION {[1 .. n -> MCCharacters] : n \in 0 .. 7}

M == "message"
Field(in, type, label) == [in |-> in, type |-> type, label |-> label]

(* Flat files: messages that hold one another in every way. *)
Names == <<"A", "B", "C", "D">>
MCIdentifiers == Range(Names) \cup {"E", "F", "N", "Q", "X", "Y", "Z", "pkg", "sub", "oth"}
FlatFile(n, held) ==
  [package |-> <<"pkg">>, imports |-> <<>>,
   kinds |-> [path \in {<<Names[i]>> : i \in 1 .. n} |-> M],
   children |-> (<<>> :> SubSeq(Names, 1, n)),
   fields |-> [pair \in held |-> Field(<<Names[pair[1]]>>, <<Names[pair[2]]>>, "repeated")]]
OtherPairs(n) == {pair \in (1 .. n) \X (1 .. n) : pair[1] # pair[2]}
FlatFiles == {FlatFile(4, held) : held \in SUBSET OtherPairs(4)}
SmallFiles == {FlatFile(3, held) : held \in SUBSET OtherPairs(3)}

(* A file with messages and enums in others, of the same names in several scopes,
   with imports of its package and of another one, and two fields with every name
   that may be looked up from where they are. *)
Kinds ==
  <<"A">> :> M @@ <<"B">> :> M @@ <<"E">> :> "enum" @@
  <<"A", "N">> :> M @@ <<"A", "B">> :> M @@ <<"A", "F">> :> "enum" @@ <<"A", "N", "E">> :> M
Children == <<>> :> <<"A", "B">> @@ <<"A">> :> <<"N", "B">> @@ <<"A", "N">> :> <<"E">>
Packages == {None, <<"pkg">>, <<"pkg", "sub">>}
Imports(package) ==
  {<<>>, <<[package |-> package, kinds |-> "X" :> M @@ "Y" :> "enum"]>>,
   <<[package |-> <<"oth">>, kinds |-> "Z" :> M], [package |-> package, kinds |-> "X" :> "enum"]>>,
   <<[package |-> package, kinds |-> "N" :> "enum"]>>}
Types(package) ==
  {<<name>> : name \in {"A", "B", "N", "E", "F", "X", "Y", "Q"}} \cup
  {package \o <<"E">>, package \o <<"B">>, package \o <<"A", "N">>, package \o <<"Q">>, <<"oth", "Z">>}
NestedFiles ==
  UNION {{[package |-> package, imports |-> imports, kinds |-> Kinds, children |-> Children,
           fields |-> <<Field(in, type, "repeated"), Field(other, otherType, "repeated")>>] :
             in \in {<<"A">>, <<"A", "N">>}, other \in {<<"B">>, <<"A", "B">>},
             type \in Types(package), otherType \in Types(package), imports \in Imports(package)} :
           package \in Packages}

(* Files of one field: with names that nothing has or that stand in a message, a
   nested message with the name of an imported enum, and packages of one and two
   identifiers before an enum. *)
WrongFile(package, imports, type) ==
  [package |-> package, imports |-> imports,
   kinds |-> <<"A">> :> M @@ <<"A", "N">> :> M @@ <<"E">> :> "enum",
   children |-> <<>> :> <<"A">> @@ <<"A">> :> <<"N">>,
   fields |-> <<Field(<<"A">>, type, "single")>>]
WrongFiles ==
  UNION {{WrongFile(package, imports, type) :
            imports \in Imports(package),
            type \in {<<"A">>, <<"N">>, <<"Q">>, package \o <<"E">>, package \o <<"A", "N">>}} :
          package \in Packages \ {None}}

MCFiles == FlatFiles \cup NestedFiles
NoTexts == {<<>>}
=============================================================================
