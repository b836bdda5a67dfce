----------------------------- MODULE MCCompiler -----------------------------
(***************************************************************************)
(* Compilations of a root file top.sv in a directory with files a.sv and   *)
(* b.sv, a search path with more of them, and links between the two.       *)
(***************************************************************************)
EXTENDS CompilerProperties

NoMemories == [m \in {} |-> 0]

MCCode == "idle" :> Empty

\* A module with a clock input, an output and whatever else is given.
Shell(name, params, constructs, instances) ==
  [name |-> name, params |-> params, constructs |-> constructs, instances |-> instances,
   decls |-> <<Decl("i", "input", "wire", 1), Decl("o", "output", "wire", 1)>>,
   memories |-> NoMemories, assigns |-> <<>>, blocks |-> <<>>]

Instance(name, module, overrides) ==
  [name |-> name, module |-> module, overrides |-> overrides,
   connections |-> <<[port |-> "i", expr |-> Id("i")], [port |-> "o", expr |-> Id("o")]>>]

Text(modules) == [parses |-> TRUE, modules |-> modules]
Broken        == [parses |-> FALSE]

Leaf(name) == Shell(name, <<>>, <<>>, <<>>)
With(name, instances) == Shell(name, <<>>, <<>>, instances)
Uses(n) == Instance("u_" \o n, n, <<>>)

\* An instance whose input is open.
Unclocked(n) == [Uses(n) EXCEPT !.connections = <<[port |-> "o", expr |-> Id("o")]>>]

\* W is free, D is its upper bit, and D is baked into a range.
Sized == Shell("a",
  <<[name |-> "W", width |-> 2, default |-> Lit(<<"0", "1">>)],
    [name |-> "D", width |-> 1, default |-> Part(Id("W"), 1, 1)]>>,
  <<ConcatOf(<<Id("D"), Lit(<<"1">>)>>)>>, <<>>)

Overriding(x) == Instance("u_a", "a", <<[param |-> "W", expr |-> x]>>)

Parameterised(x) ==
  Shell("top", <<[name |-> "P", width |-> 2, default |-> Lit(<<"1", "0">>)]>>, <<>>, <<Overriding(x)>>)

Tops ==
  {<<With("top", <<Uses("a"), Uses("b")>>)>>,
   <<With("top", <<Uses("b"), Uses("a")>>)>>,
   <<Leaf("b"), With("top", <<Uses("b"), Uses("a")>>)>>,
   <<With("main", <<Uses("a")>>)>>,
   <<Parameterised(Id("P"))>>,
   <<Parameterised(Un("~", Id("P")))>>, <<Parameterised(Lit(<<"1", "1">>))>>,
   <<Parameterised(Id("i"))>>,
   <<With("top", <<Unclocked("a")>>)>>,
   <<Leaf("b"), With("top", <<Unclocked("b")>>)>>}

RootTexts == {Broken, Text(<<>>), Text(<<Leaf("top"), Leaf("top")>>)} \cup {Text(t) : t \in Tops}

\* What a.sv may hold; "none" stands for no file.
TextsOfA == {Broken, Text(<<Leaf("a")>>), Text(<<Sized>>), Text(<<With("a", <<Uses("b")>>)>>),
             Text(<<With("a", <<Uses("top")>>)>>), Text(<<Leaf("a"), Leaf("b")>>), Text(<<Leaf("b")>>)}
TextsOfB == {Text(<<Leaf("b")>>), Text(<<With("b", <<Uses("a")>>)>>), Text(<<With("b", <<Uses("b")>>)>>)}

Root == <<"d", "top", "sv">>
NoFile == [parses |-> FALSE, absent |-> TRUE]

NoLinks == [p \in {} |-> Root]

\* The files of a disk, and one link of the search path.
DiskOf(texts, links) ==
  LET there == {p \in DOMAIN texts : texts[p] # NoFile}
      known == {l \in DOMAIN links : links[l] \in there}
  IN  [source |-> [p \in there |-> texts[p]],
       real   |-> [p \in there \cup known |-> IF p \in there THEN p ELSE links[p]]]

Files(r, a, b, sa, sb) ==
  (Root :> r) @@ (<<"d", "a", "sv">> :> a) @@ (<<"d", "b", "v">> :> b)
  @@ (<<"s", "a", "sv">> :> sa) @@ (<<"s", "b", "sv">> :> sb)

MCDisks ==
  {DiskOf(Files(r, a, b, sa, sb), l) :
     r \in RootTexts, a \in TextsOfA \cup {NoFile}, b \in TextsOfB \cup {NoFile},
     sa \in {NoFile, Text(<<With("a", <<Uses("b")>>)>>)}, sb \in {NoFile, Text(<<Leaf("b")>>)},
     l \in {NoLinks, <<"s", "b", "sv">> :> <<"d", "b", "v">>, <<"s", "a", "v">> :> <<"d", "top", "sv">>}}

\* What validate_module lets pass has instances with names of their own.
ASSUME \A d \in MCDisks : \A t \in {d.source[p] : p \in DOMAIN d.source} :
         t.parses => \A k \in 1..Len(t.modules) : ValidModule(t.modules[k]) => NamedApart(t.modules[k])

MCSearchPaths == <<"s">>

MCRoots ==
  {[op |-> "file", path |-> Root], [op |-> "file", path |-> <<"s", "a", "v">>],
   [op |-> "str", path |-> <<"d", "virtual", "sv">>, text |-> Text(<<With("top", <<Uses("a")>>)>>)]}
=============================================================================
