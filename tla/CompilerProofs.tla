--------------------------- MODULE CompilerProofs ---------------------------
(***************************************************************************)
(* Proofs about Loader and Compiler, for every disk, every search path and *)
(* every call, and whatever is asked of a module and of an instance        *)
(* (Passes, Fits) or computed for parameters (Values, HasAll, Refuses).    *)
(*                                                                         *)
(* First the loader: what it registers, and what it refuses as defined     *)
(* twice.  Then the compiler: elaborate_design cannot run into a cycle     *)
(* because the modules that validate_design has left are grounded: they    *)
(* instantiate only modules that were left before, so that every set of    *)
(* them has a member none of whose instances is of a module of that set.   *)
(* The part of the stack from a module that would be entered twice to the  *)
(* top is such a set without such a member.  Last the hierarchy that       *)
(* elaboration builds: nothing but what validation let pass, and all of it.*)
(***************************************************************************)
EXTENDS Compiler, TLAPS, WellFoundedInduction

-----------------------------------------------------------------------------
(* Sequences of whatever elements. *)

\* A sequence over any set is one over the set of its elements.
LEMMA SeqIsSequence == ASSUME NEW U, NEW s \in Seq(U) PROVE IsSequence(s)
<1> DEFINE S == {s[k] : k \in DOMAIN s}
<1>1. Len(s) \in Nat /\ DOMAIN s = 1..Len(s) /\ s = [k \in 1..Len(s) |-> s[k]]
  OBVIOUS
<1>2. \A k \in 1..Len(s) : s[k] \in S
  BY <1>1
<1>3. [k \in 1..Len(s) |-> s[k]] \in Seq(S)
  BY <1>1, <1>2
<1> QED
  BY <1>1, <1>3 DEF IsSequence

\* What Append does to a sequence.
LEMMA Appending ==
  ASSUME NEW s, IsSequence(s), NEW e
  PROVE  /\ IsSequence(Append(s, e))
         /\ Len(s) \in Nat /\ Len(Append(s, e)) = Len(s) + 1
         /\ \A k \in 1..Len(s) : Append(s, e)[k] = s[k]
         /\ Append(s, e)[Len(s) + 1] = e
<1> DEFINE S == {s[k] : k \in DOMAIN s} \cup {e}
<1>1. s \in Seq(S)
  <2>1. s \in Seq({s[k] : k \in DOMAIN s})
    BY DEF IsSequence
  <2> QED
    BY <2>1
<1>2. Append(s, e) \in Seq(S)
  BY <1>1
<1>3. IsSequence(Append(s, e))
  BY <1>2, SeqIsSequence
<1>4. Len(s) \in Nat /\ Len(Append(s, e)) = Len(s) + 1
  BY <1>1
<1>5. \A k \in 1..Len(s) : Append(s, e)[k] = s[k]
  BY <1>1
<1>6. Append(s, e)[Len(s) + 1] = e
  BY <1>1
<1> QED
  BY <1>3, <1>4, <1>5, <1>6

\* What taking off the last element does.
LEMMA TakingLast ==
  ASSUME NEW s, IsSequence(s), s # <<>>
  PROVE  LET rest == SubSeq(s, 1, Len(s) - 1)
         IN  /\ IsSequence(rest)
             /\ Len(s) \in Nat \ {0} /\ Len(rest) = Len(s) - 1
             /\ \A k \in 1..(Len(s) - 1) : rest[k] = s[k]
<1> DEFINE S == {s[k] : k \in DOMAIN s}
           rest == SubSeq(s, 1, Len(s) - 1)
<1>1. s \in Seq(S)
  BY DEF IsSequence
<1>2. Len(s) \in Nat /\ Len(s) # 0
  BY <1>1
<1>3. rest \in Seq(S) /\ Len(rest) = Len(s) - 1 /\ \A k \in 1..(Len(s) - 1) : rest[k] = s[k]
  BY <1>1, <1>2
<1> QED
  BY <1>2, <1>3, SeqIsSequence

\* Sequences have a length.
LEMMA LengthIsNatural == ASSUME NEW s, IsSequence(s) PROVE Len(s) \in Nat
  BY DEF IsSequence

\* Only the empty sequence has no elements.
LEMMA EmptyIsEmpty ==
  ASSUME NEW s, IsSequence(s) PROVE (s = <<>>) <=> (Len(s) = 0)
<1> DEFINE S == {s[k] : k \in DOMAIN s}
<1>1. s \in Seq(S)
  BY DEF IsSequence
<1> QED
  BY <1>1

\* Every nonempty set of natural numbers has a least element, so Min finds it.
LEMMA MinInSet == ASSUME NEW S \in SUBSET Nat, S # {} PROVE Min(S) \in S
<1> DEFINE R == {p \in Nat \X Nat : p[1] < p[2]}
<1>1. IsWellFoundedOn(R, Nat)
  BY NatLessThanWellFounded DEF OpToRel
<1>2. PICK x \in S : \A y \in S : ~(<<y, x>> \in R)
  BY <1>1, WFMin
<1>3. \A y \in S : x <= y
  <2> SUFFICES ASSUME NEW y \in S, ~(x <= y) PROVE FALSE
    OBVIOUS
  <2>1. <<y, x>> \in Nat \X Nat /\ y < x
    OBVIOUS
  <2> QED
    BY <1>2, <2>1
<1> QED
  BY <1>3 DEF Min

-----------------------------------------------------------------------------
(* What holds of any disk. *)

\* No path is pending twice, or pending and registered.
Separate ==
  /\ \A k \in 1..Len(pending) :
       /\ pending[k] \in seen
       /\ \A j \in 1..Len(pending) : pending[j] = pending[k] => j = k
       /\ \A j \in 1..Len(files) : files[j].path # pending[k]
  /\ \A k \in 1..Len(files) : files[k].path \in seen

LoadInv ==
  /\ disk \in Disks /\ call \in Roots
  /\ IsSequence(files) /\ IsSequence(pending)
  /\ status = "start" => files = <<>> /\ pending = <<>> /\ seen = {} /\ DOMAIN provided = {}
  /\ status \in {"loading", "loaded"} => files # <<>>
  /\ status = "duplicate" /\ files # <<>> => pending # <<>>
  /\ Separate

\* The empty sequence is one.
LEMMA EmptySequence == IsSequence(<<>>) /\ Len(<<>>) = 0
<1>1. <<>> \in Seq({})
  OBVIOUS
<1> QED
  BY <1>1, SeqIsSequence

\* The invariant holds before the call.
LEMMA LoadInit == Init => LoadInv
  BY EmptySequence DEF Init, LoadInv, Separate

\* The root file, when it is the first to be registered, is new.
LEMMA RootStep == LoadInv /\ LoadRoot => LoadInv'
<1> SUFFICES ASSUME LoadInv, LoadRoot PROVE LoadInv'
  OBVIOUS
<1>1. status = "start" /\ files = <<>> /\ pending = <<>>
  BY DEF LoadInv, LoadRoot
<1>2. CASE Duplicates(RootText.modules) # {}
  BY <1>1, <1>2 DEF LoadInv, LoadRoot, Stop, Separate
<1>3. CASE Duplicates(RootText.modules) = {}
  <2> DEFINE e == [path |-> RootPath, modules |-> RootText.modules]
  <2>1. /\ status' = "loading" /\ seen' = {RootPath} /\ files' = Append(files, e)
        /\ UNCHANGED <<disk, call, pending>>
    BY <1>3 DEF LoadRoot, Register
  <2>2. IsSequence(files') /\ Len(files') = 1 /\ files'[1] = e
    <3>1. IsSequence(files) /\ Len(files) = 0
      BY <1>1, EmptySequence
    <3>2. /\ IsSequence(files') /\ Len(files') = Len(files) + 1
          /\ files'[Len(files) + 1] = e
      BY <2>1, <3>1, Appending
    <3> QED
      BY <3>1, <3>2
  <2>3. Separate'
    BY <1>1, <2>1, <2>2, EmptySequence DEF Separate
  <2>4. files' # <<>>
    BY <2>2, EmptySequence
  <2> QED
    BY <2>1, <2>2, <2>3, <2>4 DEF LoadInv
<1> QED
  BY <1>2, <1>3

\* A path that was not seen is not pending and not registered.
LEMMA InstantiationStep == LoadInv /\ Instantiation => LoadInv'
<1> SUFFICES ASSUME LoadInv, Instantiation PROVE LoadInv'
  OBVIOUS
<1> DEFINE path == Resolved(Wanted, CurrentDir)
<1>1. CASE Missing
  <2>1. status' = "not found" /\ UNCHANGED <<disk, call, pending, seen, provided, files>>
    BY <1>1 DEF Instantiation, Stop
  <2> QED
    BY <2>1 DEF LoadInv, Separate
<1>2. CASE ~Missing /\ (Known \/ path \in seen)
  <2>1. pending' = pending /\ seen' = seen /\ UNCHANGED <<disk, call, status, provided, files>>
    BY <1>2 DEF Instantiation
  <2> QED
    BY <2>1 DEF LoadInv, Separate
<1>3. CASE ~Missing /\ ~Known /\ path \notin seen
  <2>1. /\ pending' = Append(pending, path) /\ seen' = seen \cup {path}
        /\ UNCHANGED <<disk, call, status, provided, files>>
        /\ status = "loading"
    BY <1>3 DEF Instantiation
  <2>2. /\ IsSequence(pending')
        /\ Len(pending) \in Nat /\ Len(pending') = Len(pending) + 1
        /\ \A k \in 1..Len(pending) : pending'[k] = pending[k]
        /\ pending'[Len(pending) + 1] = path
    BY <2>1, Appending DEF LoadInv
  <2>3. \A k \in 1..Len(pending') : k \in 1..Len(pending) \/ k = Len(pending')
    BY <2>2
  <2>4. \A k \in 1..Len(pending') : pending'[k] \in seen'
    BY <2>1, <2>2, <2>3 DEF LoadInv, Separate
  <2>5. ASSUME NEW k \in 1..Len(pending'), NEW j \in 1..Len(pending'), pending'[j] = pending'[k]
        PROVE  j = k
    BY <1>3, <2>2, <2>3, <2>5 DEF LoadInv, Separate
  <2>6. ASSUME NEW k \in 1..Len(pending'), NEW j \in 1..Len(files')
        PROVE  files'[j].path # pending'[k]
    BY <1>3, <2>1, <2>2, <2>3 DEF LoadInv, Separate
  <2>7. \A k \in 1..Len(files') : files'[k].path \in seen'
    BY <2>1 DEF LoadInv, Separate
  <2>8. Separate'
    BY <2>4, <2>5, <2>6, <2>7 DEF Separate
  <2> QED
    BY <2>1, <2>2, <2>8 DEF LoadInv
<1> QED
  BY <1>1, <1>2, <1>3

\* The last pending path becomes the path of the last file.
LEMMA NextFileStep == LoadInv /\ LoadNext => LoadInv'
<1> SUFFICES ASSUME LoadInv, LoadNext PROVE LoadInv'
  OBVIOUS
<1> DEFINE path == pending[Len(pending)]
           text == disk.source[path]
           e    == [path |-> path, modules |-> text.modules]
<1>1. CASE ~text.parses \/ Duplicates(text.modules) # {}
  <2>1. status' \in {"parse", "duplicate"} /\ pending # <<>>
        /\ UNCHANGED <<disk, call, pending, seen, provided, files>>
    BY <1>1 DEF LoadNext, Stop
  <2> QED
    BY <2>1 DEF LoadInv, Separate
<1>2. CASE text.parses /\ Duplicates(text.modules) = {}
  <2>1. /\ pending # <<>> /\ pending' = SubSeq(pending, 1, Len(pending) - 1)
        /\ files' = Append(files, e)
        /\ status = "loading"
        /\ UNCHANGED <<disk, call, status, seen>>
    BY <1>2 DEF LoadNext, Register
  <2>2. /\ IsSequence(pending')
        /\ Len(pending) \in Nat \ {0} /\ Len(pending') = Len(pending) - 1
        /\ \A k \in 1..(Len(pending) - 1) : pending'[k] = pending[k]
    BY <2>1, TakingLast DEF LoadInv
  <2>3. /\ IsSequence(files')
        /\ Len(files) \in Nat /\ Len(files') = Len(files) + 1
        /\ \A k \in 1..Len(files) : files'[k] = files[k]
        /\ files'[Len(files) + 1] = e
    BY <2>1, Appending DEF LoadInv
  <2>4. \A k \in 1..Len(files') : k \in 1..Len(files) \/ k = Len(files')
    BY <2>3
  <2>5. \A k \in 1..Len(pending') : k \in 1..(Len(pending) - 1) /\ k \in 1..Len(pending)
    BY <2>2
  <2>6. Len(pending) \in 1..Len(pending)
    BY <2>2
  <2>7. \A k \in 1..Len(pending') : pending'[k] \in seen'
    BY <2>1, <2>2, <2>5 DEF LoadInv, Separate
  <2>8. ASSUME NEW k \in 1..Len(pending'), NEW j \in 1..Len(pending'), pending'[j] = pending'[k]
        PROVE  j = k
    BY <2>2, <2>5, <2>8 DEF LoadInv, Separate
  <2>9. ASSUME NEW k \in 1..Len(pending'), NEW j \in 1..Len(files')
        PROVE  files'[j].path # pending'[k]
    <3>1. pending'[k] = pending[k] /\ k \in 1..Len(pending) /\ k # Len(pending)
      BY <2>2, <2>5
    <3>2. CASE j \in 1..Len(files)
      BY <2>3, <3>1, <3>2 DEF LoadInv, Separate
    <3>3. CASE j = Len(files')
      BY <2>3, <2>6, <3>1, <3>3 DEF LoadInv, Separate
    <3> QED
      BY <2>4, <3>2, <3>3
  <2>10. \A k \in 1..Len(files') : files'[k].path \in seen'
    BY <2>1, <2>3, <2>4, <2>6 DEF LoadInv, Separate
  <2>11. Separate'
    BY <2>7, <2>8, <2>9, <2>10 DEF Separate
  <2>12. files' # <<>>
    BY <2>3, EmptyIsEmpty
  <2> QED
    BY <2>1, <2>2, <2>3, <2>11, <2>12 DEF LoadInv
<1> QED
  BY <1>1, <1>2

\* Every step of the loader keeps the invariant.
LEMMA LoadStep == LoadInv /\ [Load]_loading => LoadInv'
<1> SUFFICES ASSUME LoadInv, [Load]_loading PROVE LoadInv'
  OBVIOUS
<1>1. CASE RootFails
  BY <1>1 DEF LoadInv, RootFails, Stop, Separate
<1>2. CASE LoadRoot
  BY <1>2, RootStep
<1>3. CASE Instantiation
  BY <1>3, InstantiationStep
<1>4. CASE NextModule
  BY <1>4 DEF LoadInv, NextModule, Separate
<1>5. CASE LoadNext
  BY <1>5, NextFileStep
<1>6. CASE Loaded
  BY <1>6 DEF LoadInv, Loaded, Stop, Separate
<1>7. CASE UNCHANGED loading
  BY <1>7 DEF LoadInv, loading, Separate
<1> QED
  BY <1>1, <1>2, <1>3, <1>4, <1>5, <1>6, <1>7 DEF Load

\* A file is not registered against itself.
LEMMA NotReadTwice == LoadInv => DuplicatesAreReal
<1> SUFFICES ASSUME LoadInv, status = "duplicate", files # <<>>
             PROVE  pending[Len(pending)] \notin {files[k].path : k \in 1..Len(files)}
  BY DEF DuplicatesAreReal
<1>1. Len(pending) \in Nat /\ Len(pending) # 0
  BY LengthIsNatural, EmptyIsEmpty DEF LoadInv
<1> QED
  BY <1>1 DEF LoadInv, Separate

\* No file is read against itself, however many instantiations, links and
\* search paths lead to it: a reported duplicate is one (seen_paths).
THEOREM DuplicatesReal == LoadSpec => []DuplicatesAreReal
  BY NotReadTwice, LoadInit, LoadStep, PTL DEF LoadSpec

-----------------------------------------------------------------------------
(* What holds of a conventional library. *)

\* The path an instantiation leads to has been seen.
Followed(file, inst) ==
  Resolves(inst.module, Dir(file.path)) => Resolved(inst.module, Dir(file.path)) \in seen

\* The j-th instantiation of the m-th module of the k-th file was looked at.
Passed(k, m, j) ==
  k < Len(files) \/ m < cursor[1] \/ (m = cursor[1] /\ j < cursor[2])

\* A registered file is one of the disk, and provides the module of its name.
Registered(file) ==
  /\ file.path \in DOMAIN disk.source
  /\ disk.source[file.path].parses
  /\ file.modules = disk.source[file.path].modules
  /\ file.path[2] \in DOMAIN provided
  /\ provided[file.path[2]] = file.path

LibraryInv ==
  /\ status # "duplicate"
  /\ seen \subseteq DOMAIN disk.source
  /\ \A k \in 1..Len(files) : Registered(files[k])
  /\ \A n \in DOMAIN provided : \E k \in 1..Len(files) : files[k].path = provided[n] /\ files[k].path[2] = n
  /\ \A p \in seen : \/ \E k \in 1..Len(pending) : pending[k] = p
                     \/ \E k \in 1..Len(files) : files[k].path = p
  /\ cursor[1] \in Nat /\ cursor[2] \in Nat
  /\ \A k \in 1..Len(files) : \A m \in 1..Len(files[k].modules) :
       \A j \in 1..Len(files[k].modules[m].instances) :
         Passed(k, m, j) => Followed(files[k], files[k].modules[m].instances[j])
  /\ status = "loaded" => pending = <<>> /\ ~InModule

ConventionInv == LoadInv /\ (Conventional /\ call.op = "file" => LibraryInv)

\* The file an instantiation leads to is on the disk and has the module's name.
LEMMA ResolvedNamed ==
  ASSUME disk \in Disks, Conventional, NEW name, NEW dir, Resolves(name, dir)
  PROVE  Resolved(name, dir) \in DOMAIN disk.source /\ Resolved(name, dir)[2] = name
<1> DEFINE k == Min(Found(name, dir))
           p == Candidate(name, dir, k)
<1>1. Found(name, dir) \in SUBSET Nat
  BY DEF Found
<1>2. k \in Found(name, dir)
  BY <1>1, MinInSet DEF Resolves
<1>3. p \in DOMAIN disk.real
  BY <1>2 DEF Found
<1>4. p[2] = name
  BY DEF Candidate
<1>5. disk.real[p] \in DOMAIN disk.source
  BY <1>3, LoaderAssumption DEF LoaderAssumption
<1>6. disk.real[p][2] = p[2]
  BY <1>3 DEF Conventional
<1> QED
  BY <1>4, <1>5, <1>6 DEF Resolved

\* A file of a conventional library has one module, of its name.
LEMMA OneModule ==
  ASSUME disk \in Disks, Conventional, NEW p \in DOMAIN disk.source, disk.source[p].parses
  PROVE  LET modules == disk.source[p].modules
         IN  NamesIn(modules) = {p[2]} /\ (p[2] \notin DOMAIN provided => Duplicates(modules) = {})
<1> DEFINE modules == disk.source[p].modules
<1>1. Len(modules) = 1 /\ modules[1].name = p[2]
  BY DEF Conventional
<1>2. 1..Len(modules) = {1}
  BY <1>1
<1>3. NamesIn(modules) = {p[2]}
  BY <1>1, <1>2 DEF NamesIn
<1>4. ASSUME p[2] \notin DOMAIN provided PROVE Duplicates(modules) = {}
  <2>1. ~ \E j \in 1..Len(modules) :
            \/ modules[j].name \in DOMAIN provided
            \/ \E i \in 1..(j - 1) : modules[i].name = modules[j].name
    BY <1>1, <1>2, <1>4
  <2> QED
    BY <2>1 DEF Duplicates
<1> QED
  BY <1>3, <1>4

\* Lengths of what a registered file holds.
LEMMA RegisteredLengths ==
  ASSUME disk \in Disks, NEW file, Registered(file)
  PROVE  /\ Len(file.modules) \in Nat
         /\ \A m \in 1..Len(file.modules) : Len(file.modules[m].instances) \in Nat
  BY LoaderAssumption, LengthIsNatural DEF LoaderAssumption, Registered, IsText

\* The library invariant holds before the call.
LEMMA LibraryInit == Init => ConventionInv
<1> SUFFICES ASSUME Init PROVE LibraryInv
  BY LoadInit DEF ConventionInv
<1>1. /\ status = "start" /\ cursor = <<1, 1>> /\ seen = {} /\ DOMAIN provided = {}
      /\ Len(files) = 0 /\ Len(pending) = 0
  BY EmptySequence DEF Init
<1> QED
  BY <1>1 DEF LibraryInv

\* The invariant of a library speaks of the loader's variables only.
LEMMA LibraryStays ==
  ASSUME LibraryInv, status' # "duplicate",
         status' = "loaded" => pending = <<>> /\ ~InModule,
         UNCHANGED <<disk, call, cursor, pending, seen, provided, files>>
  PROVE  LibraryInv'
<1>1. \A k \in 1..Len(files') : Registered(files[k])'
  BY DEF LibraryInv, Registered
<1>2. \A k \in 1..Len(files') : \A m \in 1..Len(files'[k].modules) :
        \A j \in 1..Len(files'[k].modules[m].instances) :
          Passed(k, m, j)' => Followed(files[k], files[k].modules[m].instances[j])'
  <2> SUFFICES ASSUME NEW k \in 1..Len(files), NEW m \in 1..Len(files[k].modules),
                      NEW j \in 1..Len(files[k].modules[m].instances), Passed(k, m, j)
               PROVE  Followed(files[k], files[k].modules[m].instances[j])'
    BY DEF Passed
  <2>1. Followed(files[k], files[k].modules[m].instances[j])
    BY DEF LibraryInv
  <2> QED
    BY <2>1 DEF Followed, Resolves, Resolved, Found
<1>3. status' = "loaded" => pending' = <<>> /\ ~InModule'
  BY DEF InModule, Current
<1> QED
  BY <1>1, <1>2, <1>3 DEF LibraryInv

\* The root of a library is registered.
LEMMA LibraryRoot ==
  ASSUME ConventionInv, LoadRoot, Conventional, call.op = "file" PROVE LibraryInv'
<1> DEFINE p == disk.real[call.path]
           modules == disk.source[p].modules
           e == [path |-> p, modules |-> modules]
<1>1. /\ disk \in Disks /\ status = "start" /\ files = <<>> /\ pending = <<>> /\ DOMAIN provided = {}
      /\ RootPath = p /\ RootText = disk.source[p]
      /\ call.path \in DOMAIN disk.real /\ disk.source[p].parses
  BY DEF ConventionInv, LoadInv, LoadRoot, RootExists, RootPath, RootText
<1>2. p \in DOMAIN disk.source
  BY <1>1, LoaderAssumption DEF LoaderAssumption
<1>3. Duplicates(modules) = {} /\ NamesIn(modules) = {p[2]}
  BY <1>1, <1>2, OneModule
<1>4. /\ status' = "loading" /\ seen' = {p} /\ files' = Append(files, e) /\ cursor' = <<1, 1>>
      /\ provided' = [n \in {p[2]} |-> p]
      /\ UNCHANGED <<disk, call, pending>>
  <2>1. /\ status' = "loading" /\ seen' = {p} /\ files' = Append(files, e) /\ cursor' = <<1, 1>>
        /\ provided' = [n \in DOMAIN provided \cup {p[2]} |-> IF n \in {p[2]} THEN p ELSE provided[n]]
        /\ UNCHANGED <<disk, call, pending>>
    BY <1>1, <1>3 DEF LoadRoot, Register
  <2>2. provided' = [n \in {p[2]} |-> p]
    BY <1>1, <2>1
  <2> QED
    BY <2>1, <2>2
<1>5. Len(files') = 1 /\ files'[1] = e
  <2>1. IsSequence(files) /\ Len(files) = 0
    BY <1>1, EmptySequence
  <2> QED
    BY <1>4, <2>1, Appending
<1>6. \A k \in 1..Len(files') : k = 1
  BY <1>5
<1>7. \A k \in 1..Len(files') : Registered(files[k])'
  <2>1. e.path = p /\ e.modules = disk.source[p].modules
    OBVIOUS
  <2>2. disk' = disk /\ p \in DOMAIN disk.source /\ disk.source[p].parses
    BY <1>1, <1>2, <1>4
  <2>4. p[2] \in DOMAIN provided' /\ provided'[p[2]] = p
    BY <1>4
  <2> HIDE DEF e, p, modules
  <2>3. \A k \in 1..Len(files') : files'[k] = e
    BY <1>5, <1>6
  <2> QED
    BY <2>1, <2>2, <2>3, <2>4 DEF Registered
<1>8. \A n \in DOMAIN provided' :
        \E k \in 1..Len(files') : files'[k].path = provided'[n] /\ files'[k].path[2] = n
  BY <1>4, <1>5
<1>9. \A q \in seen' : \E k \in 1..Len(files') : files'[k].path = q
  BY <1>4, <1>5
<1>10. ASSUME NEW k \in 1..Len(files'), NEW m \in 1..Len(files'[k].modules),
              NEW j \in 1..Len(files'[k].modules[m].instances)
       PROVE  ~ Passed(k, m, j)'
  BY <1>4, <1>5, <1>6 DEF Passed
<1> QED
  BY <1>2, <1>4, <1>7, <1>8, <1>9, <1>10 DEF LibraryInv

\* Whatever makes the loader skip an instantiation, its path has been seen.
LEMMA KnownFollowed ==
  ASSUME ConventionInv, Conventional, call.op = "file",
         NEW file, NEW inst, inst.module \in DOMAIN provided
  PROVE  Followed(file, inst)
<1> SUFFICES ASSUME Resolves(inst.module, Dir(file.path))
             PROVE  Resolved(inst.module, Dir(file.path)) \in seen
  BY DEF Followed
<1> DEFINE r == Resolved(inst.module, Dir(file.path))
<1>1. r \in DOMAIN disk.source /\ r[2] = inst.module
  BY ResolvedNamed DEF ConventionInv, LoadInv
<1>2. PICK k \in 1..Len(files) : files[k].path = provided[inst.module] /\ files[k].path[2] = inst.module
  BY DEF ConventionInv, LibraryInv
<1>3. files[k].path \in DOMAIN disk.source /\ files[k].path \in seen
  BY DEF ConventionInv, LibraryInv, Registered, LoadInv, Separate
<1>4. r = files[k].path
  BY <1>1, <1>2, <1>3 DEF Conventional
<1> QED
  BY <1>3, <1>4

\* What an instantiation leads to becomes pending, unless it was seen.
LEMMA LibraryInstantiation ==
  ASSUME ConventionInv, Instantiation, Conventional, call.op = "file" PROVE LibraryInv'
<1> USE DEF ConventionInv
<1>1. CASE Missing
  <2>1. status' = "not found" /\ UNCHANGED <<disk, call, cursor, pending, seen, provided, files>>
    BY <1>1 DEF Instantiation, Stop
  <2> QED
    BY <2>1, LibraryStays
<1>2. CASE ~Missing
  <2> DEFINE n    == Len(files)
             inst == Current.modules[cursor[1]].instances[cursor[2]]
             path == Resolved(Wanted, CurrentDir)
  <2>1. /\ cursor' = <<cursor[1], cursor[2] + 1>> /\ status = "loading"
        /\ UNCHANGED <<disk, call, status, provided, files>>
        /\ seen \subseteq seen'
    BY <1>2 DEF Instantiation, NextCursor
  <2>2. n \in Nat
    BY LengthIsNatural DEF LoadInv
  <2>3. ASSUME NEW file, NEW i, file = Current, i = inst PROVE Followed(file, i)'
    <3> HIDE DEF ConventionInv
    <3>1. Wanted = i.module /\ CurrentDir = Dir(file.path)
      BY <2>3 DEF Wanted, CurrentDir
    <3>2. CASE Known
      <4>1. i.module \in DOMAIN provided
        BY <3>1, <3>2 DEF Known
      <4>2. Followed(file, i)
        BY <4>1, KnownFollowed
      <4> QED
        BY <2>1, <4>2 DEF Followed, Resolves, Resolved, Found
    <3>3. CASE ~Known
      <4>1. path \in seen'
        BY <1>2, <3>3 DEF Instantiation
      <4> QED
        BY <2>1, <3>1, <4>1 DEF Followed, Resolves, Resolved, Found
    <3> QED
      BY <3>2, <3>3
  <2>4. ASSUME NEW k \in 1..Len(files), NEW m \in 1..Len(files[k].modules),
               NEW j \in 1..Len(files[k].modules[m].instances), Passed(k, m, j)'
        PROVE  Followed(files[k], files[k].modules[m].instances[j])'
    <3>1. CASE Passed(k, m, j)
      <4>1. Followed(files[k], files[k].modules[m].instances[j])
        BY <3>1 DEF LibraryInv
      <4> QED
        BY <2>1, <4>1 DEF Followed, Resolves, Resolved, Found
    <3>2. CASE ~Passed(k, m, j)
      <4>1. k = n /\ m = cursor[1] /\ j = cursor[2]
        BY <2>1, <2>2, <2>4, <3>2 DEF Passed, LibraryInv
      <4>2. files[k] = Current /\ files[k].modules[m].instances[j] = inst
        BY <4>1 DEF Current
      <4>3. PICK file, i : file = files[k] /\ i = files[k].modules[m].instances[j]
        OBVIOUS
      <4>4. Followed(file, i)'
        BY <2>3, <4>2, <4>3
      <4> QED
        BY <2>1, <4>3, <4>4 DEF Followed, Resolves, Resolved, Found
    <3> QED
      BY <3>1, <3>2
  <2>5. /\ seen' \subseteq DOMAIN disk'.source
        /\ \A p \in seen' : \/ \E k \in 1..Len(pending') : pending'[k] = p
                            \/ \E k \in 1..Len(files') : files'[k].path = p
    <3>1. CASE Known \/ path \in seen
      <4>1. pending' = pending /\ seen' = seen
        BY <1>2, <3>1 DEF Instantiation
      <4> QED
        BY <2>1, <4>1 DEF LibraryInv
    <3>2. CASE ~Known /\ path \notin seen
      <4>1. pending' = Append(pending, path) /\ seen' = seen \cup {path}
        BY <1>2, <3>2 DEF Instantiation
      <4>2. Resolves(Wanted, CurrentDir)
        BY <1>2, <3>2 DEF Missing
      <4>3. path \in DOMAIN disk.source
        BY <4>2, ResolvedNamed DEF LoadInv
      <4>4. /\ Len(pending) \in Nat /\ Len(pending') = Len(pending) + 1
            /\ \A k \in 1..Len(pending) : pending'[k] = pending[k]
            /\ pending'[Len(pending) + 1] = path
        BY <4>1, Appending DEF LoadInv
      <4>5. \E k \in 1..Len(pending') : pending'[k] = path
        BY <4>4
      <4>6. ASSUME NEW p \in seen
            PROVE  \/ \E k \in 1..Len(pending') : pending'[k] = p
                   \/ \E k \in 1..Len(files') : files'[k].path = p
        <5>1. CASE \E k \in 1..Len(files) : files[k].path = p
          BY <2>1, <5>1
        <5>2. CASE \E k \in 1..Len(pending) : pending[k] = p
          <6>1. PICK k \in 1..Len(pending) : pending[k] = p
            BY <5>2
          <6>2. k \in 1..Len(pending') /\ pending'[k] = p
            BY <4>4, <6>1
          <6> QED
            BY <6>2
        <5> QED
          BY <5>1, <5>2 DEF LibraryInv
      <4> QED
        BY <2>1, <4>1, <4>3, <4>5, <4>6 DEF LibraryInv
    <3> QED
      BY <3>1, <3>2
  <2>6. \A k \in 1..Len(files') : Registered(files[k])'
    BY <2>1 DEF LibraryInv, Registered
  <2>7. status' # "duplicate" /\ status' # "loaded" /\ cursor'[1] \in Nat /\ cursor'[2] \in Nat
    BY <2>1 DEF LibraryInv
  <2>8. \A q \in DOMAIN provided' :
          \E k \in 1..Len(files') : files'[k].path = provided'[q] /\ files'[k].path[2] = q
    BY <2>1 DEF LibraryInv
  <2>9. \A k \in 1..Len(files') : \A m \in 1..Len(files'[k].modules) :
          \A j \in 1..Len(files'[k].modules[m].instances) :
            Passed(k, m, j)' => Followed(files[k], files[k].modules[m].instances[j])'
    BY <2>1, <2>4
  <2> QED
    BY <2>5, <2>6, <2>7, <2>8, <2>9 DEF LibraryInv
<1> QED
  BY <1>1, <1>2

\* The instantiations of a module are behind the cursor when it moves on.
LEMMA LibraryNextModule ==
  ASSUME ConventionInv, NextModule, Conventional, call.op = "file" PROVE LibraryInv'
<1> USE DEF ConventionInv
<1>1. /\ cursor' = <<cursor[1] + 1, 1>> /\ status = "loading" /\ InModule /\ ~MoreWanted
      /\ UNCHANGED <<disk, call, status, pending, seen, provided, files>>
  BY DEF NextModule
<1>2. Len(files) \in Nat /\ Len(files) # 0
  BY LengthIsNatural, EmptyIsEmpty, <1>1 DEF LoadInv, InModule
<1>3. ASSUME NEW k \in 1..Len(files), NEW m \in 1..Len(files[k].modules),
             NEW j \in 1..Len(files[k].modules[m].instances), Passed(k, m, j)'
      PROVE  Followed(files[k], files[k].modules[m].instances[j])'
  <2>1. Len(files[k].modules) \in Nat /\ Len(files[k].modules[m].instances) \in Nat
    BY RegisteredLengths DEF LoadInv, LibraryInv
  <2>2. Passed(k, m, j)
    <3>1. CASE k < Len(files) \/ m < cursor[1]
      BY <3>1 DEF Passed
    <3>2. CASE k = Len(files) /\ m = cursor[1]
      <4>1. ~(cursor[2] <= Len(files[k].modules[m].instances))
        BY <1>1, <3>2 DEF MoreWanted, Current
      <4> QED
        BY <2>1, <3>2, <4>1 DEF Passed, LibraryInv
    <3> QED
      BY <1>1, <1>2, <1>3, <2>1, <3>1, <3>2 DEF Passed, LibraryInv
  <2>3. Followed(files[k], files[k].modules[m].instances[j])
    BY <2>2 DEF LibraryInv
  <2> QED
    BY <1>1, <2>3 DEF Followed, Resolves, Resolved, Found
<1>4. \A k \in 1..Len(files') : Registered(files[k])'
  BY <1>1 DEF LibraryInv, Registered
<1>5. \A k \in 1..Len(files') : \A m \in 1..Len(files'[k].modules) :
        \A j \in 1..Len(files'[k].modules[m].instances) :
          Passed(k, m, j)' => Followed(files[k], files[k].modules[m].instances[j])'
  BY <1>1, <1>3
<1> QED
  BY <1>1, <1>4, <1>5 DEF LibraryInv

\* The file that became pending last is registered.
LEMMA LibraryNextFile ==
  ASSUME ConventionInv, LoadNext, Conventional, call.op = "file" PROVE LibraryInv'
<1> DEFINE n       == Len(pending)
           p       == pending[n]
           modules == disk.source[p].modules
           e       == [path |-> p, modules |-> modules]
<1>1. /\ LoadInv /\ LibraryInv
      /\ status = "loading" /\ ~InModule /\ pending # <<>> /\ files # <<>>
      /\ n \in Nat \ {0} /\ disk \in Disks
  BY TakingLast DEF ConventionInv, LoadNext, LoadInv
<1>2. p \in seen /\ p \in DOMAIN disk.source /\ \A j \in 1..Len(files) : files[j].path # p
  BY <1>1 DEF LoadInv, LibraryInv, Separate
<1>3. CASE ~disk.source[p].parses
  <2>1. status' = "parse" /\ UNCHANGED <<disk, call, cursor, pending, seen, provided, files>>
    BY <1>3 DEF LoadNext, Stop
  <2> QED
    BY <1>1, <2>1, LibraryStays
<1>4. CASE disk.source[p].parses
  <2>1. p[2] \notin DOMAIN provided
    <3> SUFFICES ASSUME p[2] \in DOMAIN provided PROVE FALSE
      OBVIOUS
    <3>1. PICK k \in 1..Len(files) : files[k].path[2] = p[2]
      BY <1>1 DEF LibraryInv
    <3>2. files[k].path \in DOMAIN disk.source
      BY <1>1 DEF LibraryInv, Registered
    <3> QED
      BY <1>2, <3>1, <3>2 DEF Conventional
  <2>2. Duplicates(modules) = {} /\ NamesIn(modules) = {p[2]}
    BY <1>1, <1>2, <1>4, <2>1, OneModule
  <2>3. /\ pending' = SubSeq(pending, 1, n - 1) /\ files' = Append(files, e) /\ cursor' = <<1, 1>>
        /\ provided' = [q \in DOMAIN provided \cup {p[2]} |-> IF q \in {p[2]} THEN p ELSE provided[q]]
        /\ UNCHANGED <<disk, call, status, seen>>
    BY <1>4, <2>2 DEF LoadNext, Register
  <2>4. /\ Len(pending') = n - 1
        /\ \A k \in 1..(n - 1) : pending'[k] = pending[k]
    BY <1>1, <2>3, TakingLast DEF LoadInv
  <2>5. /\ Len(files) \in Nat /\ Len(files') = Len(files) + 1
        /\ \A k \in 1..Len(files) : files'[k] = files[k]
        /\ files'[Len(files) + 1] = e
    BY <1>1, <2>3, Appending DEF LoadInv
  <2>6. \A k \in 1..Len(files') : k \in 1..Len(files) \/ k = Len(files')
    BY <2>5
  <2>7. /\ p[2] \in DOMAIN provided' /\ provided'[p[2]] = p
        /\ \A q \in DOMAIN provided : q \in DOMAIN provided' /\ provided'[q] = provided[q]
        /\ \A q \in DOMAIN provided' : q = p[2] \/ q \in DOMAIN provided
    BY <2>1, <2>3
  <2>8. ASSUME NEW k \in 1..Len(files') PROVE Registered(files[k])'
    <3>1. CASE k \in 1..Len(files)
      <4>1. Registered(files[k]) /\ files'[k] = files[k]
        BY <1>1, <2>5, <3>1 DEF LibraryInv
      <4> QED
        BY <2>3, <2>7, <4>1 DEF Registered
    <3>2. CASE k = Len(files')
      <4>1. files'[k] = e
        BY <2>5, <3>2
      <4> QED
        BY <1>2, <1>4, <2>3, <2>7, <4>1 DEF Registered
    <3> QED
      BY <2>6, <3>1, <3>2
  <2>9. ASSUME NEW q \in DOMAIN provided'
        PROVE  \E k \in 1..Len(files') : files'[k].path = provided'[q] /\ files'[k].path[2] = q
    <3>1. CASE q = p[2]
      <4>1. Len(files') \in 1..Len(files') /\ files'[Len(files')] = e
        BY <2>5
      <4> QED
        BY <2>7, <3>1, <4>1
    <3>2. CASE q \in DOMAIN provided
      <4>1. PICK k \in 1..Len(files) : files[k].path = provided[q] /\ files[k].path[2] = q
        BY <1>1, <3>2 DEF LibraryInv
      <4>2. k \in 1..Len(files') /\ files'[k] = files[k]
        BY <2>5
      <4> QED
        BY <2>7, <3>2, <4>1, <4>2
    <3> QED
      BY <2>7, <3>1, <3>2
  <2>10. ASSUME NEW q \in seen'
         PROVE  \/ \E k \in 1..Len(pending') : pending'[k] = q
                \/ \E k \in 1..Len(files') : files'[k].path = q
    <3>1. CASE \E k \in 1..n : pending[k] = q
      <4>1. PICK k \in 1..n : pending[k] = q
        BY <3>1
      <4>2. CASE k = n
        <5>1. Len(files') \in 1..Len(files') /\ files'[Len(files')].path = q
          BY <2>5, <4>1, <4>2
        <5> QED
          BY <5>1
      <4>3. CASE k # n
        <5>1. k \in 1..Len(pending') /\ pending'[k] = q
          BY <1>1, <2>4, <4>1, <4>3
        <5> QED
          BY <5>1
      <4> QED
        BY <4>2, <4>3
    <3>2. CASE \E k \in 1..Len(files) : files[k].path = q
      <4>1. PICK k \in 1..Len(files) : files[k].path = q
        BY <3>2
      <4>2. k \in 1..Len(files') /\ files'[k].path = q
        BY <2>5, <4>1
      <4> QED
        BY <4>2
    <3> QED
      BY <1>1, <2>3, <3>1, <3>2 DEF LibraryInv
  <2>11. ASSUME NEW k \in 1..Len(files'), NEW m \in 1..Len(files'[k].modules),
                NEW j \in 1..Len(files'[k].modules[m].instances), Passed(k, m, j)'
         PROVE  Followed(files[k], files[k].modules[m].instances[j])'
    <3>1. k < Len(files')
      BY <2>3, <2>5, <2>11 DEF Passed
    <3>2. k \in 1..Len(files) /\ files'[k] = files[k]
      BY <2>5, <3>1
    <3>3. Len(files[k].modules) \in Nat
      BY <1>1, <3>2, RegisteredLengths DEF LibraryInv
    <3>4. Passed(k, m, j)
      <4>1. CASE k < Len(files)
        BY <4>1 DEF Passed
      <4>2. CASE k = Len(files)
        BY <1>1, <2>11, <3>2, <3>3, <4>2 DEF Passed, InModule, Current, LibraryInv
      <4> QED
        BY <2>5, <3>2, <4>1, <4>2
    <3>5. Followed(files[k], files[k].modules[m].instances[j])
      BY <1>1, <3>2, <3>4 DEF LibraryInv
    <3> QED
      BY <2>3, <3>2, <3>5 DEF Followed, Resolves, Resolved, Found
  <2>12. cursor'[1] \in Nat /\ cursor'[2] \in Nat /\ status' = "loading"
    BY <1>1, <2>3
  <2>13. seen' \subseteq DOMAIN disk'.source
    BY <1>1, <2>3 DEF LibraryInv
  <2> QED
    BY <2>8, <2>9, <2>10, <2>11, <2>12, <2>13 DEF LibraryInv
<1> QED
  BY <1>3, <1>4

\* Every step of the loader keeps what is loaded of a library.
LEMMA ConventionStep == ConventionInv /\ [Load]_loading => ConventionInv'
<1> SUFFICES ASSUME ConventionInv, [Load]_loading, Conventional', call'.op = "file" PROVE LibraryInv'
  BY LoadStep DEF ConventionInv
<1>1. disk' = disk /\ call' = call
  BY DEF Load, RootFails, LoadRoot, Instantiation, NextModule, LoadNext, Loaded, Stop, loading
<1>2. Conventional /\ call.op = "file" /\ LibraryInv
  BY <1>1 DEF Conventional, ConventionInv
<1>3. CASE RootFails
  <2>1. status' \in {"io", "parse", "empty"}
        /\ UNCHANGED <<disk, call, cursor, pending, seen, provided, files>>
    BY <1>3 DEF RootFails, Stop
  <2> QED
    BY <1>2, <2>1, LibraryStays
<1>4. CASE LoadRoot
  BY <1>2, <1>4, LibraryRoot
<1>5. CASE Instantiation
  BY <1>2, <1>5, LibraryInstantiation
<1>6. CASE NextModule
  BY <1>2, <1>6, LibraryNextModule
<1>7. CASE LoadNext
  BY <1>2, <1>7, LibraryNextFile
<1>8. CASE Loaded
  <2>1. status' = "loaded" /\ pending = <<>> /\ ~InModule
        /\ UNCHANGED <<disk, call, cursor, pending, seen, provided, files>>
    BY <1>8 DEF Loaded, Stop
  <2> QED
    BY <1>2, <2>1, LibraryStays
<1>9. CASE UNCHANGED loading
  <2>1. UNCHANGED <<disk, call, cursor, pending, seen, provided, files, status>>
    BY <1>9 DEF loading
  <2>2. status' # "duplicate" /\ (status' = "loaded" => pending = <<>> /\ ~InModule)
    BY <1>2, <2>1 DEF LibraryInv
  <2> QED
    BY <1>2, <2>1, <2>2, LibraryStays
<1> QED
  BY <1>3, <1>4, <1>5, <1>6, <1>7, <1>8, <1>9 DEF Load

\* The file an instantiation leads to was seen, so that it is registered.
LEMMA LibraryLoads == ConventionInv => ConventionLoads
<1> SUFFICES ASSUME ConventionInv, Conventional, call.op = "file"
             PROVE  /\ status # "duplicate"
                    /\ status = "loaded" =>
                         \A k \in 1..Len(files) : \A m \in 1..Len(files[k].modules) :
                           \A j \in 1..Len(files[k].modules[m].instances) :
                             GotItsFile(files[k], files[k].modules[m].instances[j])
  BY DEF ConventionLoads
<1>1. LibraryInv /\ LoadInv
  BY DEF ConventionInv
<1>2. ASSUME status = "loaded", NEW k \in 1..Len(files), NEW m \in 1..Len(files[k].modules),
             NEW j \in 1..Len(files[k].modules[m].instances),
             Resolves(files[k].modules[m].instances[j].module, Dir(files[k].path))
      PROVE  GotItsFile(files[k], files[k].modules[m].instances[j])
  <2> DEFINE name == files[k].modules[m].instances[j].module
             r    == Resolved(name, Dir(files[k].path))
  <2>1. pending = <<>> /\ ~InModule /\ files # <<>>
    BY <1>1, <1>2 DEF LibraryInv, LoadInv
  <2>2. Passed(k, m, j)
    <3>1. Len(files) \in Nat /\ Len(files[k].modules) \in Nat
      BY <1>1, LengthIsNatural, RegisteredLengths DEF LibraryInv, LoadInv
    <3>2. CASE k = Len(files)
      BY <1>1, <2>1, <3>1, <3>2 DEF Passed, InModule, Current, LibraryInv
    <3> QED
      BY <3>1, <3>2 DEF Passed
  <2>3. r \in seen
    BY <1>1, <1>2, <2>2 DEF LibraryInv, Followed
  <2>4. r[2] = name
    BY <1>1, <1>2, ResolvedNamed DEF LoadInv
  <2>5. PICK i \in 1..Len(files) : files[i].path = r
    <3>1. Len(pending) = 0
      BY <2>1, EmptySequence
    <3> QED
      BY <1>1, <2>3, <3>1 DEF LibraryInv
  <2>6. name \in DOMAIN provided /\ provided[name] = r
    <3>1. files[i].path[2] \in DOMAIN provided /\ provided[files[i].path[2]] = files[i].path
      BY <1>1 DEF LibraryInv, Registered
    <3> HIDE DEF name, r
    <3> QED
      BY <2>4, <2>5, <3>1
  <2> QED
    BY <2>6 DEF GotItsFile
<1>3. ASSUME NEW file, NEW inst, ~Resolves(inst.module, Dir(file.path)) PROVE GotItsFile(file, inst)
  BY <1>3 DEF GotItsFile
<1> QED
  BY <1>1, <1>2, <1>3 DEF LibraryInv

\* Whatever the order in which files are found and parsed, a conventional
\* library is loaded without a duplicate, and every instantiation gets the
\* module of the file that the search finds for it (register_source_file).
THEOREM ConventionalLoads == LoadSpec => []ConventionLoads
  BY LibraryLoads, LibraryInit, ConventionStep, PTL DEF LoadSpec

-----------------------------------------------------------------------------
(* The invariant of a compilation. *)

\* The modules that the instances of a module are of.
Children(n) == {Module(n).instances[j].module : j \in 1..Len(Module(n).instances)}

\* What is registered are modules with sequences of instances, the root file
\* has one, and what is pending is on the disk.
FilesKept ==
  /\ \A k \in 1..Len(pending) : pending[k] \in DOMAIN disk.source
  /\ \A k \in 1..Len(files) :
       /\ IsSequence(files[k].modules)
       /\ \A j \in 1..Len(files[k].modules) : IsSequence(files[k].modules[j].instances)
  /\ files # <<>> => files[1].modules # <<>>

\* Every set of validated modules has a member with no instance of the set.
Grounded ==
  /\ validated \subseteq Compiled
  /\ \A n \in validated : Children(n) \subseteq validated
  /\ \A S \in SUBSET validated : S # {} => \E n \in S : Children(n) \cap S = {}

IsFrame(f) ==
  /\ f = [module |-> f.module, at |-> f.at, path |-> f.path]
  /\ f.module \in Compiled /\ f.at \in Nat \ {0}

Stacked(fs) == IsSequence(fs) /\ \A k \in 1..Len(fs) : IsFrame(fs[k])

\* The module of the j-th instance of the module of a frame.
InstanceOf(f, j) == Module(f.module).instances[j].module

\* What an instance passed in validation is of: a module that is validated,
\* or the one that the next frame is in.
Descended(fs, k, n) == n \in validated \/ (k < Len(fs) /\ n = fs[k + 1].module)

\* The modules of the stack are distinct, and not validated.
Entered(fs) ==
  /\ \A i, k \in 1..Len(fs) : fs[i].module = fs[k].module => i = k
  /\ \A k \in 1..Len(fs) : fs[k].module \notin validated
  /\ \A k \in 1..Len(fs) : \A j \in 1..Len(Module(fs[k].module).instances) :
       j < fs[k].at => Descended(fs, k, InstanceOf(fs[k], j))

\* Modules before the place of validate_design's loops.
Before(k, j) == k < visit[1] \/ (k = visit[1] /\ j < visit[2])

\* They are validated, but the last of them may be what the stack began with.
Visited(fs) ==
  /\ visit[1] \in Nat \ {0} /\ visit[2] \in Nat \ {0}
  /\ \A k \in 1..Len(files) : \A j \in 1..Len(files[k].modules) :
       Before(k, j) => \/ files[k].modules[j].name \in validated
                       \/ fs # <<>> /\ files[k].modules[j].name = fs[1].module

\* In elaboration each module of the stack has an instance of the next one.
Chained(fs) ==
  \A k \in 1..Len(fs) : k < Len(fs) => fs[k + 1].module \in Children(fs[k].module)

Loads      == {"start", "loading", "loaded"}
Elaborates == {"elaborating", "elaborated", "parameter", "frozen"}

CompilerInv ==
  /\ LoadInv /\ FilesKept /\ Grounded
  /\ status \in Loads => validated = {} /\ frames = <<>>
  /\ status \in {"validating", "compiled", "elaborating"} => files # <<>>
  /\ status \in {"validating", "elaborating"} => Stacked(frames)
  /\ status = "validating" => Entered(frames) /\ Visited(frames)
  /\ status \in {"compiled", "elaborating"} => Compiled \subseteq validated
  /\ status = "elaborating" => Chained(frames)
  /\ status \notin Elaborates => tree = <<>>

-----------------------------------------------------------------------------
(* The files. *)

\* A registered text keeps sequences, if it is one that parses.
LEMMA TextKeeps ==
  ASSUME NEW text, IsText(text), text.parses
  PROVE  /\ IsSequence(text.modules)
         /\ \A j \in 1..Len(text.modules) : IsSequence(text.modules[j].instances)
  BY DEF IsText

\* What Register adds.
LEMMA RegisterKeeps ==
  ASSUME LoadInv, FilesKept, NEW path, NEW text, IsText(text), text.parses,
         files' = Append(files, [path |-> path, modules |-> text.modules]),
         files = <<>> => text.modules # <<>>,
         \A k \in 1..Len(pending') : pending'[k] \in DOMAIN disk'.source
  PROVE  FilesKept'
<1> DEFINE e == [path |-> path, modules |-> text.modules]
<1>1. /\ IsSequence(files) /\ Len(files) \in Nat /\ Len(files') = Len(files) + 1
      /\ \A k \in 1..Len(files) : files'[k] = files[k]
      /\ files'[Len(files) + 1] = e
  BY Appending DEF LoadInv
<1>2. \A k \in 1..Len(files') : k \in 1..Len(files) \/ k = Len(files) + 1
  BY <1>1
<1>3. ASSUME NEW k \in 1..Len(files')
      PROVE  /\ IsSequence(files'[k].modules)
             /\ \A j \in 1..Len(files'[k].modules) : IsSequence(files'[k].modules[j].instances)
  <2>1. CASE k \in 1..Len(files)
    BY <1>1, <2>1 DEF FilesKept
  <2>2. CASE k = Len(files) + 1
    BY <1>1, <2>2, TextKeeps
  <2> QED
    BY <1>2, <2>1, <2>2
<1>4. files'[1].modules # <<>>
  <2>1. CASE files = <<>>
    BY <1>1, <2>1, EmptySequence
  <2>2. CASE files # <<>>
    <3>1. 1 \in 1..Len(files)
      BY <1>1, <2>2, EmptyIsEmpty
    <3> QED
      BY <1>1, <2>2, <3>1 DEF FilesKept
  <2> QED
    BY <2>1, <2>2
<1> QED
  BY <1>3, <1>4 DEF FilesKept

\* Files that stay are kept.
LEMMA FilesStay ==
  ASSUME FilesKept, UNCHANGED <<disk, files>>, pending' = pending PROVE FilesKept'
  BY DEF FilesKept

\* The root file keeps the files.
LEMMA RootKeeps == ASSUME LoadInv, FilesKept, LoadRoot PROVE FilesKept'
<1>1. CASE Duplicates(RootText.modules) # {}
  BY <1>1, FilesStay DEF LoadRoot, Stop
<1>2. CASE Duplicates(RootText.modules) = {}
  <2>1. /\ files' = Append(files, [path |-> RootPath, modules |-> RootText.modules])
        /\ UNCHANGED <<disk, pending>>
        /\ RootText.parses /\ RootText.modules # <<>> /\ RootExists
    BY <1>2 DEF LoadRoot, Register
  <2>2. IsText(RootText)
    <3>1. CASE call.op = "str"
      BY <3>1, LoaderAssumption DEF LoaderAssumption, LoadInv, RootText
    <3>2. CASE call.op # "str"
      <4>1. call.path \in DOMAIN disk.real
        BY <2>1, <3>2 DEF RootExists
      <4>2. disk.real[call.path] \in DOMAIN disk.source
        BY <4>1, LoaderAssumption DEF LoaderAssumption, LoadInv
      <4> QED
        BY <3>2, <4>2, LoaderAssumption DEF LoaderAssumption, LoadInv, RootText, RootPath
    <3> QED
      BY <3>1, <3>2
  <2>3. \A k \in 1..Len(pending') : pending'[k] \in DOMAIN disk'.source
    BY <2>1 DEF FilesKept
  <2> HIDE DEF RootText
  <2> QED
    BY <2>1, <2>2, <2>3, RegisterKeeps
<1> QED
  BY <1>1, <1>2

\* What becomes pending is where a path of the disk leads.
LEMMA InstantiationKeeps == ASSUME LoadInv, FilesKept, Instantiation PROVE FilesKept'
<1> DEFINE path == Resolved(Wanted, CurrentDir)
<1>1. CASE pending' = pending
  BY <1>1, FilesStay DEF Instantiation, Stop
<1>2. CASE pending' # pending
  <2>1. /\ ~Missing /\ ~Known /\ pending' = Append(pending, path)
        /\ UNCHANGED <<disk, files>>
    BY <1>2 DEF Instantiation, Stop
  <2>2. Found(Wanted, CurrentDir) # {} /\ Found(Wanted, CurrentDir) \in SUBSET Nat
    BY <2>1 DEF Missing, Resolves, Found
  <2>3. Min(Found(Wanted, CurrentDir)) \in Found(Wanted, CurrentDir)
    BY <2>2, MinInSet
  <2>4. path \in DOMAIN disk.source
    BY <2>3, LoaderAssumption DEF LoaderAssumption, LoadInv, Found, Resolved
  <2>5. /\ Len(pending) \in Nat /\ Len(pending') = Len(pending) + 1
        /\ \A k \in 1..Len(pending) : pending'[k] = pending[k]
        /\ pending'[Len(pending) + 1] = path
    BY <2>1, Appending DEF LoadInv
  <2>6. \A k \in 1..Len(pending') : pending'[k] \in DOMAIN disk.source
    <3> HIDE DEF path
    <3> QED
      BY <2>4, <2>5 DEF FilesKept
  <2> QED
    BY <2>1, <2>6 DEF FilesKept
<1> QED
  BY <1>1, <1>2

\* A pending file that is read keeps the files.
LEMMA NextFileKeeps == ASSUME LoadInv, FilesKept, LoadNext PROVE FilesKept'
<1> DEFINE path == pending[Len(pending)]
           text == disk.source[path]
<1>1. CASE ~text.parses \/ Duplicates(text.modules) # {}
  BY <1>1, FilesStay DEF LoadNext, Stop
<1>2. CASE text.parses /\ Duplicates(text.modules) = {}
  <2>1. /\ pending # <<>> /\ pending' = SubSeq(pending, 1, Len(pending) - 1)
        /\ files' = Append(files, [path |-> path, modules |-> text.modules])
        /\ disk' = disk /\ status = "loading"
    BY <1>2 DEF LoadNext, Register
  <2>2. /\ Len(pending) \in Nat \ {0} /\ Len(pending') = Len(pending) - 1
        /\ \A k \in 1..(Len(pending) - 1) : pending'[k] = pending[k]
    BY <2>1, TakingLast DEF LoadInv
  <2>3. \A k \in 1..Len(pending') : pending'[k] \in DOMAIN disk'.source
    BY <2>1, <2>2 DEF FilesKept
  <2>4. IsText(text)
    BY <2>2, LoaderAssumption DEF LoaderAssumption, LoadInv, FilesKept
  <2>5. files # <<>>
    BY <2>1 DEF LoadInv
  <2> HIDE DEF text, path
  <2> QED
    BY <1>2, <2>1, <2>3, <2>4, <2>5, RegisterKeeps
<1> QED
  BY <1>1, <1>2

\* Loading keeps the files.
LEMMA LoadKeeps == ASSUME LoadInv, FilesKept, Load PROVE FilesKept'
<1>1. CASE RootFails
  BY <1>1, FilesStay DEF RootFails, Stop
<1>2. CASE LoadRoot
  BY <1>2, RootKeeps
<1>3. CASE Instantiation
  BY <1>3, InstantiationKeeps
<1>4. CASE NextModule
  BY <1>4, FilesStay DEF NextModule
<1>5. CASE LoadNext
  BY <1>5, NextFileKeeps
<1>6. CASE Loaded
  BY <1>6, FilesStay DEF Loaded, Stop
<1> QED
  BY <1>1, <1>2, <1>3, <1>4, <1>5, <1>6 DEF Load

-----------------------------------------------------------------------------
(* The modules. *)

\* A compiled name is the name of a module of a file, whose instances are a
\* sequence.
LEMMA ModuleOfName ==
  ASSUME LoadInv, FilesKept, NEW n \in Compiled
  PROVE  IsSequence(Module(n).instances) /\ Len(Module(n).instances) \in Nat
<1> DEFINE K == {k \in 1..Len(files) : n \in NamesIn(files[k].modules)}
           J == {j \in 1..Len(Source(n)) : Source(n)[j].name = n}
<1>1. K \in SUBSET Nat /\ K # {}
  BY DEF Compiled
<1>2. PICK k : k = Min(K)
  OBVIOUS
<1>3. k \in 1..Len(files) /\ n \in NamesIn(files[k].modules)
  BY <1>1, <1>2, MinInSet
<1>4. Source(n) = files[k].modules
  BY <1>2 DEF Source
<1>5. J \in SUBSET Nat /\ J # {}
  BY <1>3, <1>4 DEF NamesIn
<1>6. PICK j : j = Min(J)
  OBVIOUS
<1>7. j \in 1..Len(files[k].modules)
  BY <1>4, <1>5, <1>6, MinInSet
<1>8. Module(n) = files[k].modules[j]
  BY <1>4, <1>6 DEF Module
<1>9. IsSequence(files[k].modules[j].instances)
  BY <1>3, <1>7 DEF FilesKept
<1> QED
  BY <1>8, <1>9, LengthIsNatural

\* The modules are those of the files.
LEMMA ModulesStay ==
  ASSUME files' = files
  PROVE  /\ Compiled' = Compiled
         /\ \A n : Module(n)' = Module(n) /\ Children(n)' = Children(n)
  BY DEF Compiled, Module, Source, Children

\* A module of a file is one that is compiled.
LEMMA NamesCompiled ==
  ASSUME NEW k \in 1..Len(files), NEW j \in 1..Len(files[k].modules)
  PROVE  files[k].modules[j].name \in Compiled
<1>1. files[k].modules[j].name \in NamesIn(files[k].modules)
  BY DEF NamesIn
<1> QED
  BY <1>1 DEF Compiled

\* The top module is one of the root file's.
LEMMA TopCompiled == ASSUME LoadInv, FilesKept, files # <<>> PROVE TopModule \in Compiled
<1>1. Len(files) \in Nat /\ Len(files) # 0
  BY LengthIsNatural, EmptyIsEmpty DEF LoadInv
<1>2. 1 \in 1..Len(files)
  BY <1>1
<1>3. IsSequence(files[1].modules) /\ files[1].modules # <<>>
  BY <1>2 DEF FilesKept
<1>4. Len(files[1].modules) \in Nat /\ Len(files[1].modules) # 0
  BY <1>3, LengthIsNatural, EmptyIsEmpty
<1>5. Len(files[1].modules) \in 1..Len(files[1].modules)
  BY <1>4
<1> QED
  BY <1>2, <1>5, NamesCompiled DEF TopModule

-----------------------------------------------------------------------------
(* The stack. *)

\* A new frame on top of a stack.
LEMMA Pushing ==
  ASSUME NEW fs, IsSequence(fs), NEW n, NEW path
  PROVE  LET pushed == Append(fs, Frame(n, path))
         IN  /\ IsSequence(pushed) /\ Len(fs) \in Nat /\ Len(pushed) = Len(fs) + 1
             /\ \A k \in 1..Len(fs) : pushed[k] = fs[k]
             /\ \A k \in 1..Len(pushed) : k \in 1..Len(fs) \/ k = Len(fs) + 1
             /\ pushed[Len(fs) + 1] = [module |-> n, at |-> 1, path |-> path]
<1>1. /\ IsSequence(Append(fs, Frame(n, path)))
      /\ Len(fs) \in Nat /\ Len(Append(fs, Frame(n, path))) = Len(fs) + 1
      /\ \A k \in 1..Len(fs) : Append(fs, Frame(n, path))[k] = fs[k]
      /\ Append(fs, Frame(n, path))[Len(fs) + 1] = Frame(n, path)
  BY Appending
<1> QED
  BY <1>1 DEF Frame

\* A stack of one frame.
LEMMA OneFrame ==
  ASSUME NEW fs, NEW n, NEW path, fs = Append(<<>>, Frame(n, path))
  PROVE  /\ IsSequence(fs) /\ fs # <<>> /\ Len(fs) = 1 /\ \A k \in 1..Len(fs) : k = 1
         /\ fs[1].module = n /\ fs[1].at = 1
         /\ fs[1] = [module |-> fs[1].module, at |-> fs[1].at, path |-> fs[1].path]
<1>1. PICK f : f = Frame(n, path)
  OBVIOUS
<1>2. IsSequence(fs) /\ Len(fs) = 1 /\ fs[1] = f
  <2>1. PICK e : e = <<>>
    OBVIOUS
  <2>2. IsSequence(e) /\ Len(e) = 0
    BY <2>1, EmptySequence, Zenon
  <2>3. fs = Append(e, f)
    BY <1>1, <2>1, Zenon
  <2>4. /\ IsSequence(Append(e, f)) /\ Len(Append(e, f)) = Len(e) + 1
        /\ Append(e, f)[Len(e) + 1] = f
    BY <2>2, Appending
  <2> QED
    BY <2>2, <2>3, <2>4
<1>3. fs # <<>>
  BY <1>2, EmptySequence
<1>4. \A k \in 1..Len(fs) : k = 1
  BY <1>2
<1>5. f.module = n /\ f.at = 1 /\ f = [module |-> f.module, at |-> f.at, path |-> f.path]
  BY <1>1 DEF Frame
<1> QED
  BY <1>2, <1>3, <1>4, <1>5

\* The stack without its top.
LEMMA Popping ==
  ASSUME Stacked(frames), frames # <<>>
  PROVE  /\ IsSequence(Below) /\ Len(frames) \in Nat \ {0} /\ Len(Below) = Len(frames) - 1
         /\ \A k \in 1..Len(Below) : Below[k] = frames[k] /\ k \in 1..Len(frames) /\ k < Len(frames)
<1>1. /\ IsSequence(Below) /\ Len(frames) \in Nat \ {0} /\ Len(Below) = Len(frames) - 1
      /\ \A k \in 1..(Len(frames) - 1) : Below[k] = frames[k]
  BY TakingLast DEF Stacked, Below
<1> QED
  BY <1>1

\* The stack whose top has gone on to its next instance.
LEMMA Advancing ==
  ASSUME Stacked(frames), frames # <<>>
  PROVE  /\ Len(frames) \in Nat \ {0} /\ Len(Advanced) = Len(frames)
         /\ Stacked(Advanced)
         /\ \A k \in 1..Len(frames) : Advanced[k].module = frames[k].module
         /\ \A k \in 1..Len(frames) : k < Len(frames) => Advanced[k] = frames[k]
         /\ Advanced[Len(frames)].at = Top.at + 1 /\ Advanced[Len(frames)].path = Top.path
<1> DEFINE L == Len(frames)
<1>1. L \in Nat \ {0} /\ L \in 1..L
  BY Popping
<1>2. IsFrame(Top)
  BY <1>1 DEF Stacked, Top
<1>3. [Top EXCEPT !.at = @ + 1] = [module |-> Top.module, at |-> Top.at + 1, path |-> Top.path]
  BY <1>2 DEF IsFrame
<1>4. /\ IsSequence(Advanced) /\ Len(Advanced) = L
      /\ \A k \in 1..(L - 1) : Advanced[k] = Below[k]
      /\ Advanced[L] = [module |-> Top.module, at |-> Top.at + 1, path |-> Top.path]
  <2>1. IsSequence(Below) /\ Len(Below) = L - 1
    BY Popping
  <2>2. /\ IsSequence(Advanced) /\ Len(Advanced) = Len(Below) + 1
        /\ \A k \in 1..Len(Below) : Advanced[k] = Below[k]
        /\ Advanced[Len(Below) + 1] = [Top EXCEPT !.at = @ + 1]
    BY <2>1, Appending DEF Advanced
  <2> QED
    BY <1>1, <1>3, <2>1, <2>2
<1>5. \A k \in 1..(L - 1) : Advanced[k] = frames[k]
  BY <1>1, <1>4, Popping
<1>6. /\ Advanced[L].module = frames[L].module /\ IsFrame(Advanced[L])
      /\ Advanced[L].at = Top.at + 1 /\ Advanced[L].path = Top.path
  BY <1>2, <1>4 DEF Top, IsFrame
<1>7. ASSUME NEW k \in 1..L PROVE k = L \/ k \in 1..(L - 1)
  BY <1>1
<1>8. Stacked(Advanced)
  BY <1>4, <1>5, <1>6, <1>7 DEF Stacked
<1> QED
  BY <1>1, <1>4, <1>5, <1>6, <1>7, <1>8

-----------------------------------------------------------------------------
(* What stays when the files do. *)

\* A grounded set stays one, as its modules have the same instances.
LEMMA GroundedStays ==
  ASSUME Grounded, files' = files, validated' = validated PROVE Grounded'
  BY ModulesStay DEF Grounded

\* A stack stays one of compiled modules.
LEMMA StackedStays ==
  ASSUME NEW fs, Stacked(fs), frames' = fs, files' = files PROVE Stacked(frames)'
  BY ModulesStay DEF Stacked, IsFrame

\* So do the instances that the frames of a stack have passed.
LEMMA EnteredStays ==
  ASSUME NEW fs, Entered(fs), frames' = fs, files' = files, validated' = validated
  PROVE  Entered(frames)'
<1>1. \A n : Module(n)' = Module(n)
  BY ModulesStay
<1> QED
  BY <1>1 DEF Entered, Descended, InstanceOf

\* So do the modules the loops of validate_design have visited.
LEMMA VisitedStays ==
  ASSUME NEW fs, Visited(fs), frames' = fs, files' = files, validated' = validated, visit' = visit
  PROVE  Visited(frames)'
  BY DEF Visited, Before

\* So does the chain of instances that leads to the top of the stack.
LEMMA ChainedStays ==
  ASSUME NEW fs, Chained(fs), frames' = fs, files' = files PROVE Chained(frames)'
<1>1. \A n : Children(n)' = Children(n)
  BY ModulesStay
<1> QED
  BY <1>1 DEF Chained

\* Once the files are loaded, the loader's state is not touched.
LEMMA LoadedStays ==
  ASSUME LoadInv, FilesKept, status' \notin Loads \cup {"duplicate"},
         UNCHANGED <<disk, call, cursor, pending, seen, provided, files>>
  PROVE  LoadInv' /\ FilesKept' /\ Compiled' = Compiled
  BY FilesStay, ModulesStay DEF LoadInv, Separate, Loads

\* An error ends the walk.
LEMMA Failing ==
  ASSUME CompilerInv, status = "validating", UNCHANGED <<frames, validated, tree>>,
         NEW s \in {"recursive", "missing", "invalid"}, Become(s)
  PROVE  CompilerInv'
<1>1. status' = s /\ UNCHANGED <<disk, call, cursor, pending, seen, provided, files>>
  BY DEF Become
<1>2. LoadInv' /\ FilesKept' /\ Grounded'
  BY <1>1, LoadedStays, GroundedStays DEF CompilerInv, Loads
<1>3. tree' = <<>>
  BY DEF CompilerInv, Elaborates
<1> QED
  BY <1>1, <1>2, <1>3 DEF CompilerInv, Loads, Elaborates

\* While a walk goes on.
LEMMA Going ==
  ASSUME CompilerInv, status \in {"validating", "elaborating"}, UNCHANGED loading, Grounded',
         Stacked(frames)',
         status = "validating" => Entered(frames)' /\ Visited(frames)' /\ tree' = tree,
         status = "elaborating" => Chained(frames)' /\ validated' = validated
  PROVE  CompilerInv'
<1>1. UNCHANGED <<disk, call, status, cursor, pending, seen, provided, files>>
  BY DEF loading
<1>2. LoadInv' /\ FilesKept' /\ Compiled' = Compiled
  BY <1>1, LoadedStays DEF CompilerInv, Loads
<1> QED
  BY <1>1, <1>2 DEF CompilerInv, Loads, Elaborates

-----------------------------------------------------------------------------
(* Validation. *)

\* Entering a module, validated or new, keeps the stack as it was.
LEMMA EnterSteps ==
  ASSUME CompilerInv, status = "validating", NEW n, NEW below, Enter(n, below),
         UNCHANGED <<validated, tree>>,
         n \in validated /\ frames' = below /\ UNCHANGED loading => CompilerInv',
         \A path : /\ n \notin validated /\ ~OnStack(n) /\ UNCHANGED loading
                   /\ frames' = Append(below, Frame(n, path))
                   => CompilerInv'
  PROVE  CompilerInv'
<1>1. CASE n \in validated
  BY <1>1 DEF Enter
<1>2. CASE n \notin validated /\ OnStack(n)
  BY <1>2, Failing DEF Enter
<1>3. CASE n \notin validated /\ ~OnStack(n)
  <2>1. CASE \E m \in {Module(n)} : ~Passes(m)
    BY <1>3, <2>1, Failing DEF Enter
  <2>2. CASE ~ \E m \in {Module(n)} : ~Passes(m)
    BY <1>3, <2>2 DEF Enter
  <2> QED
    BY <2>1, <2>2
<1> QED
  BY <1>1, <1>2, <1>3

\* validate_design begins with nothing visited and nothing validated.
LEMMA StartValidationKeeps == ASSUME CompilerInv, StartValidation PROVE CompilerInv'
<1>1. /\ status = "loaded" /\ status' = "validating" /\ visit' = <<1, 1>>
      /\ UNCHANGED <<disk, call, cursor, pending, seen, provided, files, frames, validated, tree>>
  BY DEF StartValidation, Become
<1>2. LoadInv' /\ FilesKept' /\ Grounded'
  BY <1>1, LoadedStays, GroundedStays DEF CompilerInv, Loads
<1>3. frames' = <<>> /\ validated' = {} /\ files # <<>> /\ tree' = <<>>
  BY <1>1 DEF CompilerInv, LoadInv, Loads, Elaborates
<1>4. Stacked(frames)' /\ Entered(frames)'
  BY <1>3, EmptySequence DEF Stacked, Entered
<1>5. Visited(frames)'
  <2>1. \A k \in 1..Len(files') : \A j \in 1..Len(files'[k].modules) : ~Before(k, j)'
    BY <1>1 DEF Before
  <2> QED
    BY <1>1, <2>1 DEF Visited
<1> QED
  BY <1>1, <1>2, <1>3, <1>4, <1>5 DEF CompilerInv, Loads, Elaborates

\* A module of the loops is validated, or is where a stack begins.
LEMMA VisitModuleKeeps == ASSUME CompilerInv, VisitModule PROVE CompilerInv'
<1>0. PICK n : n = files[visit[1]].modules[visit[2]].name
  OBVIOUS
<1>1. /\ status = "validating" /\ frames = <<>> /\ InFile /\ Enter(n, <<>>)
      /\ visit' = <<visit[1], visit[2] + 1>>
      /\ UNCHANGED <<validated, tree>>
  BY <1>0 DEF VisitModule
<1>2. Visited(frames) /\ Grounded /\ LoadInv /\ FilesKept
  BY <1>1 DEF CompilerInv
<1>3. /\ visit[1] \in 1..Len(files) /\ visit[2] \in 1..Len(files[visit[1]].modules)
      /\ visit[1] \in Nat \ {0} /\ visit[2] \in Nat \ {0}
  <2>1. Len(files) \in Nat
    BY <1>2, LengthIsNatural DEF LoadInv
  <2>2. visit[1] \in 1..Len(files) /\ visit[2] \in Nat \ {0}
    BY <1>1, <1>2, <2>1 DEF InFile, Visited
  <2>3. Len(files[visit[1]].modules) \in Nat
    BY <1>2, <2>2, LengthIsNatural DEF FilesKept
  <2> QED
    BY <1>1, <2>2, <2>3 DEF InFile
<1>4. n \in Compiled
  BY <1>0, <1>3, NamesCompiled
<1>5. ASSUME UNCHANGED loading, n \in validated \/ (frames' # <<>> /\ frames'[1].module = n)
      PROVE  Visited(frames)'
  <2>1. files' = files /\ visit'[1] = visit[1] /\ visit'[2] = visit[2] + 1
    BY <1>1, <1>5 DEF loading
  <2>2. ASSUME NEW k \in 1..Len(files), NEW j \in 1..Len(files[k].modules), Before(k, j)'
        PROVE  \/ files[k].modules[j].name \in validated
               \/ frames' # <<>> /\ files[k].modules[j].name = frames'[1].module
    <3>1. CASE Before(k, j)
      BY <1>1, <1>2, <3>1 DEF Visited
    <3>2. CASE ~Before(k, j)
      <4>1. j \in Nat /\ k = visit[1] /\ j = visit[2]
        <5>1. Len(files[k].modules) \in Nat
          BY <1>2, LengthIsNatural DEF FilesKept
        <5> QED
          BY <1>3, <2>1, <2>2, <3>2, <5>1 DEF Before
      <4> QED
        BY <1>0, <1>5, <4>1
    <3> QED
      BY <3>1, <3>2
  <2> QED
    BY <1>1, <1>3, <2>1, <2>2 DEF Visited
<1>6. ASSUME n \in validated, frames' = <<>>, UNCHANGED loading PROVE CompilerInv'
  <2>1. files' = files
    BY <1>6 DEF loading
  <2>2. Stacked(frames)' /\ Entered(frames)'
    BY <1>6, EmptySequence DEF Stacked, Entered
  <2>3. Grounded'
    BY <1>1, <1>2, <2>1, GroundedStays
  <2> QED
    BY <1>1, <1>5, <1>6, <2>2, <2>3, Going
<1>7. ASSUME NEW path, n \notin validated, frames' = Append(<<>>, Frame(n, path)), UNCHANGED loading
      PROVE  CompilerInv'
  <2>1. files' = files
    BY <1>7 DEF loading
  <2>2. PICK fs : fs = frames'
    OBVIOUS
  <2>3. /\ IsSequence(fs) /\ fs # <<>> /\ \A k \in 1..Len(fs) : k = 1
        /\ fs[1].module = n /\ fs[1].at = 1
        /\ fs[1] = [module |-> fs[1].module, at |-> fs[1].at, path |-> fs[1].path]
    BY <1>7, <2>2, OneFrame
  <2>4. Stacked(fs)
    BY <1>4, <2>3 DEF Stacked, IsFrame
  <2>5. Entered(fs)
    <3>1. \A j \in 1..Len(Module(n).instances) : ~(j < 1)
      BY <1>2, <1>4, ModuleOfName
    <3> QED
      BY <1>7, <2>3, <3>1 DEF Entered
  <2>6. frames' # <<>> /\ frames'[1].module = n
    BY <2>2, <2>3
  <2>7. Grounded'
    BY <1>1, <1>2, <2>1, GroundedStays
  <2>8. Stacked(frames)' /\ Entered(frames)'
    BY <1>1, <2>1, <2>2, <2>4, <2>5, StackedStays, EnteredStays
  <2>9. Visited(frames)'
    BY <1>5, <1>7, <2>6
  <2> QED
    BY <1>1, <1>7, <2>7, <2>8, <2>9, Going
<1> QED
  BY <1>1, <1>6, <1>7, EnterSteps

\* On to the next file, with all modules of this one visited.
LEMMA NextFileVisited == ASSUME CompilerInv, NextFile PROVE CompilerInv'
<1>1. /\ status = "validating" /\ frames = <<>> /\ ~InFile /\ visit[1] <= Len(files)
      /\ visit' = <<visit[1] + 1, 1>>
      /\ UNCHANGED loading /\ UNCHANGED <<frames, validated, tree>>
  BY DEF NextFile
<1>2. Visited(frames) /\ Entered(frames) /\ Stacked(frames) /\ Grounded /\ LoadInv /\ FilesKept
  BY <1>1 DEF CompilerInv
<1>3. files' = files /\ visit'[1] = visit[1] + 1 /\ visit'[2] = 1
  BY <1>1 DEF loading
<1>4. PICK fs : fs = frames
  OBVIOUS
<1>5. Stacked(fs) /\ Entered(fs) /\ frames' = fs
  BY <1>1, <1>2, <1>4
<1>6. Grounded' /\ Stacked(frames)' /\ Entered(frames)'
  BY <1>1, <1>2, <1>3, <1>5, GroundedStays, StackedStays, EnteredStays
<1>7. ASSUME NEW k \in 1..Len(files), NEW j \in 1..Len(files[k].modules), Before(k, j)'
      PROVE  Before(k, j)
  <2>1. Len(files) \in Nat /\ Len(files[k].modules) \in Nat
    BY <1>2, LengthIsNatural DEF LoadInv, FilesKept
  <2>2. k <= visit[1]
    BY <1>2, <1>3, <1>7, <2>1 DEF Before, Visited
  <2>3. CASE k = visit[1]
    BY <1>1, <1>2, <2>1, <2>3 DEF Before, InFile, Visited
  <2> QED
    BY <1>2, <2>1, <2>2, <2>3 DEF Before, Visited
<1>8. Visited(frames)'
  BY <1>1, <1>2, <1>3, <1>7 DEF Visited
<1> QED
  BY <1>1, <1>6, <1>8, Going

\* The instance that is looked at is the one at the top frame's place.
LEMMA InstAhead ==
  ASSUME LoadInv, FilesKept, Stacked(frames), frames # <<>>, Ahead
  PROVE  /\ Top.at \in 1..Len(Module(Top.module).instances)
         /\ Inst.module = InstanceOf(Top, Top.at)
         /\ Inst.module \in Children(Top.module)
<1>1. Len(frames) \in 1..Len(frames)
  BY Popping
<1>2. Top.module \in Compiled /\ Top.at \in Nat \ {0}
  BY <1>1 DEF Stacked, IsFrame, Top
<1>3. Len(Module(Top.module).instances) \in Nat
  BY <1>2, ModuleOfName
<1>4. Top.at \in 1..Len(Module(Top.module).instances)
  BY <1>2, <1>3 DEF Ahead
<1> QED
  BY <1>4 DEF Inst, InstanceOf, Children

\* An instance of a validated module is passed.
LEMMA AdvancedEntered ==
  ASSUME LoadInv, FilesKept, Stacked(frames), Entered(frames), frames # <<>>, Ahead,
         Inst.module \in validated
  PROVE  Entered(Advanced)
<1> DEFINE L == Len(frames)
<1>1. /\ L \in Nat \ {0} /\ Len(Advanced) = L
      /\ \A k \in 1..L : Advanced[k].module = frames[k].module
      /\ \A k \in 1..L : k < L => Advanced[k] = frames[k]
      /\ Advanced[L].at = Top.at + 1
  BY Advancing
<1>2. \A i, k \in 1..L : frames[i].module = frames[k].module => i = k
  BY DEF Entered
<1>3. \A k \in 1..L : frames[k].module \notin validated
  BY DEF Entered
<1>4. ASSUME NEW k \in 1..L, NEW j \in 1..Len(Module(frames[k].module).instances), j < Advanced[k].at
      PROVE  Descended(Advanced, k, InstanceOf(frames[k], j))
  <2>1. frames[k].module \in Compiled /\ frames[k].at \in Nat
    BY DEF Stacked, IsFrame
  <2>2. j \in Nat
    BY <2>1, ModuleOfName
  <2>3. CASE j < frames[k].at
    <3>1. Descended(frames, k, InstanceOf(frames[k], j))
      BY <2>3 DEF Entered
    <3> QED
      BY <1>1, <3>1 DEF Descended
  <2>4. CASE ~(j < frames[k].at)
    <3>1. k = L
      BY <1>1, <1>4, <2>4
    <3>2. j = Top.at /\ frames[k] = Top
      BY <1>1, <1>4, <2>1, <2>2, <2>4, <3>1 DEF Top
    <3>3. InstanceOf(frames[k], j) \in validated
      BY <3>2, InstAhead
    <3> QED
      BY <3>3 DEF Descended
  <2> QED
    BY <2>3, <2>4
<1>5. \A k \in 1..L : \A j : InstanceOf(Advanced[k], j) = InstanceOf(frames[k], j)
  BY <1>1 DEF InstanceOf
<1> QED
  BY <1>1, <1>2, <1>3, <1>4, <1>5 DEF Entered

\* The module of an instance becomes the next frame's.
LEMMA PushedEntered ==
  ASSUME LoadInv, FilesKept, Stacked(frames), Entered(frames), frames # <<>>, Ahead,
         Inst.module \notin validated, ~OnStack(Inst.module), NEW path
  PROVE  Entered(Append(Advanced, Frame(Inst.module, path)))
<1> DEFINE L == Len(frames)
<1>0. PICK fs, n : fs = Append(Advanced, Frame(Inst.module, path)) /\ n = Inst.module
  OBVIOUS
<1>1. /\ L \in Nat \ {0} /\ Len(Advanced) = L /\ IsSequence(Advanced)
      /\ \A k \in 1..L : Advanced[k].module = frames[k].module
      /\ \A k \in 1..L : k < L => Advanced[k] = frames[k]
      /\ Advanced[L].at = Top.at + 1
  BY Advancing DEF Stacked
<1>2. /\ Len(fs) = L + 1
      /\ \A k \in 1..L : fs[k] = Advanced[k]
      /\ \A k \in 1..Len(fs) : k \in 1..L \/ k = L + 1
      /\ fs[L + 1] = [module |-> n, at |-> 1, path |-> path]
  BY <1>0, <1>1, Pushing
<1>3. fs[L + 1].module = n /\ fs[L + 1].at = 1 /\ \A k \in 1..L : fs[k].module = frames[k].module
  BY <1>1, <1>2
<1>4. n \in Children(Top.module)
  BY <1>0, InstAhead
<1>5. \A i, k \in 1..Len(fs) : fs[i].module = fs[k].module => i = k
  <2>1. \A k \in 1..L : frames[k].module # n
    BY <1>0 DEF OnStack
  <2>2. \A i, k \in 1..L : frames[i].module = frames[k].module => i = k
    BY DEF Entered
  <2> QED
    BY <1>2, <1>3, <2>1, <2>2
<1>6. \A k \in 1..Len(fs) : fs[k].module \notin validated
  <2>1. \A k \in 1..L : frames[k].module \notin validated
    BY DEF Entered
  <2> QED
    BY <1>0, <1>2, <1>3, <2>1
<1>7. ASSUME NEW k \in 1..Len(fs), NEW j \in 1..Len(Module(fs[k].module).instances), j < fs[k].at
      PROVE  Descended(fs, k, InstanceOf(fs[k], j))
  <2>1. CASE k = L + 1
    <3>1. fs[k].at = 1 /\ j \in 1..Len(Module(fs[k].module).instances)
      BY <1>3, <2>1
    <3>2. j < 1
      BY <1>7, <3>1
    <3> QED
      BY <3>1, <3>2
  <2>2. CASE k \in 1..L
    <3>1. /\ fs[k] = Advanced[k] /\ fs[k].module = frames[k].module
          /\ j \in 1..Len(Module(frames[k].module).instances)
          /\ InstanceOf(fs[k], j) = InstanceOf(frames[k], j)
      BY <1>2, <1>3, <2>2 DEF InstanceOf
    <3>2. frames[k].module \in Compiled /\ frames[k].at \in Nat
      BY <2>2 DEF Stacked, IsFrame
    <3>3. j \in Nat
      BY <3>1, <3>2, ModuleOfName
    <3>4. CASE j < frames[k].at
      <4>1. Descended(frames, k, InstanceOf(frames[k], j))
        BY <2>2, <3>1, <3>4 DEF Entered
      <4>2. k < L => k + 1 \in 1..L /\ fs[k + 1].module = frames[k + 1].module
        BY <1>1, <1>3, <2>2
      <4> QED
        BY <1>1, <1>2, <2>2, <3>1, <4>1, <4>2 DEF Descended
    <3>5. CASE ~(j < frames[k].at)
      <4>1. k = L
        BY <1>1, <1>7, <2>2, <3>1, <3>5
      <4>2. frames[k] = Top /\ fs[k].at = Top.at + 1
        BY <1>1, <3>1, <4>1 DEF Top
      <4>3. j = Top.at
        BY <1>7, <3>2, <3>3, <3>5, <4>2
      <4>4. InstanceOf(fs[k], j) = n
        BY <1>0, <3>1, <4>2, <4>3, InstAhead
      <4> QED
        BY <1>1, <1>2, <1>3, <4>1, <4>4 DEF Descended
    <3> QED
      BY <3>4, <3>5
  <2> QED
    BY <1>2, <2>1, <2>2
<1> QED
  BY <1>0, <1>5, <1>6, <1>7 DEF Entered

\* A pushed stack is one of frames of compiled modules.
LEMMA PushedStacked ==
  ASSUME NEW fs, Stacked(fs), NEW n \in Compiled, NEW path PROVE Stacked(Append(fs, Frame(n, path)))
<1>0. PICK pushed : pushed = Append(fs, Frame(n, path))
  OBVIOUS
<1>1. /\ IsSequence(pushed)
      /\ \A k \in 1..Len(fs) : pushed[k] = fs[k]
      /\ \A k \in 1..Len(pushed) : k \in 1..Len(fs) \/ k = Len(fs) + 1
      /\ pushed[Len(fs) + 1] = [module |-> n, at |-> 1, path |-> path]
  BY <1>0, Pushing DEF Stacked
<1>2. IsFrame(pushed[Len(fs) + 1])
  BY <1>1 DEF IsFrame
<1>3. \A k \in 1..Len(pushed) : IsFrame(pushed[k])
  BY <1>1, <1>2 DEF Stacked
<1> QED
  BY <1>0, <1>1, <1>3 DEF Stacked

\* An instance is passed, entered or refused.
LEMMA VisitInstanceKeeps == ASSUME CompilerInv, VisitInstance PROVE CompilerInv'
<1>0. PICK n, adv : n = Inst.module /\ adv = Advanced
  OBVIOUS
<1>1. /\ status = "validating" /\ frames # <<>> /\ Ahead
      /\ UNCHANGED <<visit, validated, tree>>
  BY DEF VisitInstance
<1>2. LoadInv /\ FilesKept /\ Stacked(frames) /\ Entered(frames) /\ Visited(frames) /\ Grounded
  BY <1>1 DEF CompilerInv
<1>3. CASE n \notin Compiled \/ ~InstanceAllowed
  BY <1>0, <1>1, <1>3, Failing DEF VisitInstance
<1>4. CASE n \in Compiled /\ InstanceAllowed
  <2>1. Enter(n, adv)
    BY <1>0, <1>4 DEF VisitInstance
  <2>2. /\ Len(frames) \in Nat \ {0} /\ Len(adv) = Len(frames) /\ Stacked(adv)
        /\ \A k \in 1..Len(frames) : adv[k].module = frames[k].module
    BY <1>0, <1>1, <1>2, Advancing
  <2>3. ASSUME NEW fs, fs = frames', UNCHANGED loading, Stacked(fs), Entered(fs),
               fs # <<>>, fs[1].module = frames[1].module
        PROVE  CompilerInv'
    <3>1. files' = files
      BY <2>3 DEF loading
    <3>2. Visited(fs)
      BY <1>2, <2>3 DEF Visited
    <3>3. Stacked(frames)' /\ Entered(frames)' /\ Visited(frames)' /\ Grounded'
      BY <1>1, <1>2, <2>3, <3>1, <3>2, StackedStays, EnteredStays, VisitedStays, GroundedStays
    <3> QED
      BY <1>1, <2>3, <3>3, Going
  <2>4. ASSUME n \in validated, frames' = adv, UNCHANGED loading PROVE CompilerInv'
    <3>1. Entered(adv)
      BY <1>0, <1>1, <1>2, <2>4, AdvancedEntered
    <3>2. adv # <<>> /\ adv[1].module = frames[1].module
      BY <2>2, EmptySequence
    <3> QED
      BY <2>2, <2>3, <2>4, <3>1, <3>2
  <2>5. ASSUME NEW path, n \notin validated, ~OnStack(n), frames' = Append(adv, Frame(n, path)),
               UNCHANGED loading
        PROVE  CompilerInv'
    <3>0. PICK fs : fs = Append(adv, Frame(n, path))
      OBVIOUS
    <3>1. Stacked(fs)
      BY <1>4, <2>2, <3>0, PushedStacked
    <3>2. Entered(fs)
      BY <1>0, <1>1, <1>2, <2>5, <3>0, PushedEntered
    <3>3. /\ Len(fs) = Len(frames) + 1
          /\ \A k \in 1..Len(frames) : fs[k] = adv[k]
      BY <2>2, <3>0, Pushing DEF Stacked
    <3>4. fs # <<>> /\ fs[1].module = frames[1].module
      BY <2>2, <3>3, EmptySequence
    <3> QED
      BY <2>3, <2>5, <3>0, <3>1, <3>2, <3>4
  <2> QED
    BY <1>1, <2>1, <2>4, <2>5, EnterSteps
<1> QED
  BY <1>3, <1>4

\* All instances of a module that is left are of validated modules, and it is
\* not one of them.
LEMMA LeftIsGrounded ==
  ASSUME Grounded, NEW n \in Compiled, n \notin validated, Children(n) \subseteq validated,
         validated' = validated \cup {n}, files' = files
  PROVE  Grounded'
<1>1. Compiled' = Compiled /\ \A m : Children(m)' = Children(m)
  BY ModulesStay
<1>2. ASSUME NEW S \in SUBSET (validated \cup {n}), S # {} PROVE \E m \in S : Children(m) \cap S = {}
  <2>1. CASE S \ {n} = {}
    <3>1. n \in S /\ S = {n}
      BY <1>2, <2>1
    <3>2. Children(n) \cap S = {}
      BY <3>1
    <3> QED
      BY <3>1, <3>2
  <2>2. CASE S \ {n} # {}
    <3>1. S \ {n} \in SUBSET validated
      OBVIOUS
    <3>2. PICK m \in S \ {n} : Children(m) \cap (S \ {n}) = {}
      BY <2>2, <3>1 DEF Grounded
    <3>3. Children(m) \subseteq validated
      BY <3>1, <3>2 DEF Grounded
    <3>4. Children(m) \cap S = {}
      BY <3>2, <3>3
    <3> QED
      BY <3>2, <3>4
  <2> QED
    BY <2>1, <2>2
<1>3. \A m \in validated' : Children(m) \subseteq validated'
  BY DEF Grounded
<1> QED
  BY <1>1, <1>2, <1>3 DEF Grounded

\* A module that is left is validated.
LEMMA LeaveModuleKeeps == ASSUME CompilerInv, LeaveModule PROVE CompilerInv'
<1> DEFINE L == Len(frames)
<1>0. PICK n, fs : n = Top.module /\ fs = Below
  OBVIOUS
<1>1. /\ status = "validating" /\ frames # <<>> /\ ~Ahead
      /\ frames' = fs /\ validated' = validated \cup {n}
      /\ UNCHANGED loading /\ UNCHANGED <<visit, tree>> /\ files' = files
  BY <1>0 DEF LeaveModule, loading
<1>2. LoadInv /\ FilesKept /\ Stacked(frames) /\ Entered(frames) /\ Visited(frames) /\ Grounded
  BY <1>1 DEF CompilerInv
<1>3. /\ L \in Nat \ {0} /\ IsSequence(fs) /\ Len(fs) = L - 1
      /\ \A k \in 1..Len(fs) : fs[k] = frames[k] /\ k \in 1..L /\ k < L
  BY <1>0, <1>1, <1>2, Popping
<1>4. L \in 1..L /\ frames[L] = Top
  BY <1>3 DEF Top
<1>5. n \in Compiled /\ n \notin validated /\ Top.at \in Nat
  BY <1>0, <1>2, <1>4 DEF Stacked, IsFrame, Entered
<1>6. Children(n) \subseteq validated
  <2> SUFFICES ASSUME NEW j \in 1..Len(Module(n).instances) PROVE Module(n).instances[j].module \in validated
    BY DEF Children
  <2>1. Len(Module(n).instances) \in Nat
    BY <1>2, <1>5, ModuleOfName
  <2>2. j < frames[L].at
    BY <1>0, <1>1, <1>4, <1>5, <2>1 DEF Ahead
  <2>3. Descended(frames, L, InstanceOf(frames[L], j))
    BY <1>0, <1>2, <1>4, <2>2 DEF Entered
  <2> QED
    BY <1>0, <1>3, <1>4, <2>3 DEF Descended, InstanceOf
<1>7. Grounded'
  BY <1>1, <1>2, <1>5, <1>6, LeftIsGrounded
<1>8. Stacked(fs)
  BY <1>2, <1>3 DEF Stacked
<1>9. Entered(frames)'
  <2>1. \A m : Module(m)' = Module(m)
    BY <1>1, ModulesStay
  <2>2. \A i, k \in 1..Len(fs) : fs[i].module = fs[k].module => i = k
    BY <1>2, <1>3 DEF Entered
  <2>3. \A k \in 1..Len(fs) : fs[k].module \notin validated \cup {n}
    BY <1>0, <1>2, <1>3, <1>4 DEF Entered
  <2>4. ASSUME NEW k \in 1..Len(fs), NEW j \in 1..Len(Module(fs[k].module).instances), j < fs[k].at,
               NEW m, m = InstanceOf(fs[k], j)
        PROVE  m \in validated \cup {n} \/ (k < Len(fs) /\ m = fs[k + 1].module)
    <3>1. Descended(frames, k, m)
      BY <1>2, <1>3, <2>4 DEF Entered
    <3>2. CASE m \in validated
      BY <3>2
    <3>3. CASE m = frames[k + 1].module
      <4>1. CASE k + 1 = L
        BY <1>0, <1>4, <3>3, <4>1
      <4>2. CASE k + 1 # L
        <5>1. k \in Nat /\ k < Len(fs) /\ k + 1 \in 1..Len(fs)
          BY <1>3, <4>2
        <5> QED
          BY <1>3, <3>3, <5>1
      <4> QED
        BY <4>1, <4>2
    <3> QED
      BY <3>1, <3>2, <3>3 DEF Descended
  <2>5. \A k \in 1..Len(fs) : \A j \in 1..Len(Module(fs[k].module).instances) :
          j < fs[k].at => \/ Module(fs[k].module).instances[j].module \in validated \cup {n}
                          \/ k < Len(fs) /\ Module(fs[k].module).instances[j].module = fs[k + 1].module
    BY <2>4 DEF InstanceOf
  <2> QED
    BY <1>1, <2>1, <2>2, <2>3, <2>5 DEF Entered, Descended, InstanceOf
<1>10. Visited(frames)'
  <2>1. ASSUME NEW m, m \in validated \/ m = frames[1].module
        PROVE  m \in validated \cup {n} \/ (fs # <<>> /\ m = fs[1].module)
    <3>1. CASE L = 1
      BY <1>0, <1>4, <2>1, <3>1
    <3>2. CASE L # 1
      <4>1. 1 \in 1..Len(fs) /\ Len(fs) # 0
        BY <1>3, <3>2
      <4>2. fs[1] = frames[1] /\ fs # <<>>
        BY <1>3, <4>1, EmptySequence
      <4> QED
        BY <2>1, <4>2
    <3> QED
      BY <3>1, <3>2
  <2>2. visit[1] \in Nat \ {0} /\ visit[2] \in Nat \ {0}
    BY <1>2 DEF Visited
  <2>3. ASSUME NEW k \in 1..Len(files), NEW j \in 1..Len(files[k].modules), Before(k, j)
        PROVE  \/ files[k].modules[j].name \in validated \cup {n}
               \/ fs # <<>> /\ files[k].modules[j].name = fs[1].module
    BY <1>2, <2>1, <2>3 DEF Visited
  <2> QED
    BY <1>1, <2>2, <2>3 DEF Visited, Before
<1>11. Stacked(frames)'
  BY <1>1, <1>8, StackedStays
<1> QED
  BY <1>1, <1>7, <1>9, <1>10, <1>11, Going

\* After the loops every module is validated.
LEMMA ValidatedKeeps == ASSUME CompilerInv, Validated PROVE CompilerInv'
<1>1. /\ status = "validating" /\ frames = <<>> /\ visit[1] > Len(files) /\ status' = "compiled"
      /\ UNCHANGED <<disk, call, cursor, pending, seen, provided, files, visit, frames, validated, tree>>
  BY DEF Validated, Become, walking
<1>2. Visited(frames) /\ Grounded /\ LoadInv /\ FilesKept /\ tree = <<>> /\ files # <<>>
  BY <1>1 DEF CompilerInv, Elaborates
<1>3. Compiled \subseteq validated
  <2> SUFFICES ASSUME NEW k \in 1..Len(files), NEW j \in 1..Len(files[k].modules)
               PROVE  files[k].modules[j].name \in validated
    BY DEF Compiled, NamesIn
  <2>1. Len(files) \in Nat
    BY <1>2, LengthIsNatural DEF LoadInv
  <2>2. Before(k, j)
    BY <1>1, <1>2, <2>1 DEF Before, Visited
  <2> QED
    BY <1>1, <1>2, <2>2 DEF Visited
<1>4. LoadInv' /\ FilesKept' /\ Compiled' = Compiled /\ Grounded'
  BY <1>1, <1>2, LoadedStays, GroundedStays DEF Loads
<1> QED
  BY <1>1, <1>2, <1>3, <1>4 DEF CompilerInv, Loads, Elaborates

-----------------------------------------------------------------------------
(* Elaboration. *)

\* An instance of an elaborated module is of no module of the stack: the
\* stack from that module on would be a set of validated modules in which
\* each has an instance of another.
LEMMA NoCycle ==
  ASSUME Grounded, Compiled \subseteq validated, Stacked(frames), Chained(frames), frames # <<>>,
         NEW n \in Children(Top.module)
  PROVE  ~OnStack(n)
<1> SUFFICES ASSUME NEW i \in 1..Len(frames), frames[i].module = n PROVE FALSE
  BY DEF OnStack
<1> DEFINE L == Len(frames)
           S == {frames[k].module : k \in i..L}
<1>1. L \in Nat \ {0} /\ i \in Nat \ {0} /\ i <= L
  BY Popping
<1>2. \A k \in i..L : k \in 1..L
  BY <1>1
<1>3. S \in SUBSET validated
  <2>1. \A k \in i..L : frames[k].module \in validated
    BY <1>2 DEF Stacked, IsFrame
  <2> QED
    BY <2>1
<1>4. n \in S
  BY <1>1
<1>5. PICK m \in S : Children(m) \cap S = {}
  BY <1>3, <1>4 DEF Grounded
<1>6. PICK k \in i..L : m = frames[k].module
  OBVIOUS
<1>7. CASE k = L
  <2>1. n \in Children(m)
    BY <1>6, <1>7 DEF Top
  <2> QED
    BY <1>4, <1>5, <2>1
<1>8. CASE k # L
  <2>1. k \in 1..L /\ k < L /\ k + 1 \in i..L
    BY <1>1, <1>8
  <2>2. frames[k + 1].module \in Children(m)
    BY <1>6, <2>1 DEF Chained
  <2>3. frames[k + 1].module \in S
    BY <2>1
  <2> QED
    BY <1>5, <2>2, <2>3
<1> QED
  BY <1>7, <1>8

\* elaborate_design begins with the top module.
LEMMA StartElaborationKeeps == ASSUME CompilerInv, StartElaboration PROVE CompilerInv'
<1>1. /\ status = "compiled" /\ UNCHANGED <<visit, validated>>
      /\ \/ /\ Become("elaborating") /\ \E path : frames' = <<Frame(TopModule, path)>>
         \/ Become("parameter") /\ UNCHANGED <<frames, tree>>
  BY Zenon DEF StartElaboration
<1>2. /\ UNCHANGED <<disk, call, cursor, pending, seen, provided, files>>
      /\ \/ status' = "elaborating" /\ \E path : frames' = <<Frame(TopModule, path)>>
         \/ status' = "parameter"
  BY <1>1 DEF Become
<1>3. LoadInv /\ FilesKept /\ Grounded /\ Compiled \subseteq validated /\ files # <<>>
  BY <1>1 DEF CompilerInv
<1>4. LoadInv' /\ FilesKept' /\ Compiled' = Compiled /\ Grounded'
  BY <1>1, <1>2, <1>3, LoadedStays, GroundedStays DEF Loads
<1>5. ASSUME status' = "elaborating" PROVE Stacked(frames)' /\ Chained(frames)'
  <2>1. PICK path : frames' = <<Frame(TopModule, path)>>
    BY <1>2, <1>5
  <2>2. PICK f, n : f = Frame(TopModule, path) /\ n = TopModule
    OBVIOUS
  <2>3. n \in Compiled
    BY <1>3, <2>2, TopCompiled
  <2>4. f.module = n /\ f.at = 1 /\ f = [module |-> f.module, at |-> f.at, path |-> f.path]
    BY <2>2 DEF Frame
  <2>5. IsFrame(f)
    BY <2>3, <2>4 DEF IsFrame
  <2>6. PICK fs : fs = <<f>>
    OBVIOUS
  <2>7. fs \in Seq({f}) /\ Len(fs) = 1 /\ fs[1] = f
    BY <2>6
  <2>8. IsSequence(fs)
    BY <2>7, SeqIsSequence
  <2>9. Stacked(fs) /\ Chained(fs)
    BY <2>5, <2>7, <2>8 DEF Stacked, Chained
  <2>10. frames' = fs
    BY <2>1, <2>2, <2>6
  <2> QED
    BY <1>2, <2>9, <2>10, StackedStays, ChainedStays
<1> QED
  BY <1>1, <1>2, <1>3, <1>4, <1>5 DEF CompilerInv, Loads, Elaborates

\* An instance is entered, or refused for its parameters.
LEMMA ElaborateInstanceKeeps == ASSUME CompilerInv, ElaborateInstance PROVE CompilerInv'
<1>0. PICK n, adv : n = Inst.module /\ adv = Advanced
  OBVIOUS
<1>1. status = "elaborating" /\ frames # <<>> /\ Ahead /\ UNCHANGED <<visit, validated>> /\ Elaborate(Inst)
  BY DEF ElaborateInstance
<1>2. /\ LoadInv /\ FilesKept /\ Grounded /\ Stacked(frames) /\ Chained(frames)
      /\ Compiled \subseteq validated
  BY <1>1 DEF CompilerInv
<1>3. n \in Children(Top.module)
  BY <1>0, <1>1, <1>2, InstAhead
<1>4. ~OnStack(Inst.module)
  BY <1>0, <1>1, <1>2, <1>3, NoCycle
<1>5. Inst.module \in Compiled
  <2>1. Len(frames) \in 1..Len(frames)
    BY <1>1, <1>2, Popping
  <2>2. Top.module \in Compiled
    BY <1>2, <2>1 DEF Stacked, IsFrame, Top
  <2> QED
    BY <1>0, <1>2, <1>3, <2>2 DEF Grounded
<1>6. \/ (Become("parameter") \/ Become("frozen")) /\ UNCHANGED <<frames, tree>>
      \/ UNCHANGED loading /\ \E path : frames' = Append(Advanced, Frame(Inst.module, path))
  BY <1>1, <1>4, <1>5, Zenon DEF Elaborate
<1>7. CASE (Become("parameter") \/ Become("frozen")) /\ UNCHANGED <<frames, tree>>
  <2>1. /\ status' \in {"parameter", "frozen"}
        /\ UNCHANGED <<disk, call, cursor, pending, seen, provided, files>>
    BY <1>7 DEF Become
  <2>2. LoadInv' /\ FilesKept' /\ Grounded'
    BY <1>1, <1>2, <2>1, LoadedStays, GroundedStays DEF Loads
  <2> QED
    BY <2>1, <2>2 DEF CompilerInv, Loads, Elaborates
<1>8. CASE UNCHANGED loading /\ \E path : frames' = Append(Advanced, Frame(Inst.module, path))
  <2>0. PICK path, fs : frames' = fs /\ fs = Append(adv, Frame(n, path))
    BY <1>0, <1>8
  <2>1. files' = files
    BY <1>8 DEF loading
  <2>2. /\ Len(frames) \in Nat \ {0} /\ Len(adv) = Len(frames) /\ Stacked(adv)
        /\ \A k \in 1..Len(frames) : adv[k].module = frames[k].module
    BY <1>0, <1>1, <1>2, Advancing
  <2>3. Stacked(fs)
    BY <1>0, <1>5, <2>0, <2>2, PushedStacked
  <2>4. /\ Len(fs) = Len(frames) + 1
        /\ \A k \in 1..Len(frames) : fs[k] = adv[k]
        /\ fs[Len(frames) + 1] = [module |-> n, at |-> 1, path |-> path]
    BY <2>0, <2>2, Pushing DEF Stacked
  <2>5. /\ \A k \in 1..Len(frames) : fs[k].module = frames[k].module
        /\ fs[Len(frames) + 1].module = n
    BY <2>2, <2>4
  <2>6. Chained(fs)
    <3> SUFFICES ASSUME NEW k \in 1..Len(fs), k < Len(fs)
                 PROVE  fs[k + 1].module \in Children(fs[k].module)
      BY DEF Chained
    <3>1. k \in 1..Len(frames)
      BY <2>2, <2>4
    <3>2. CASE k = Len(frames)
      BY <1>3, <2>5, <3>1, <3>2 DEF Top
    <3>3. CASE k # Len(frames)
      <4>1. k < Len(frames) /\ k + 1 \in 1..Len(frames)
        BY <2>2, <3>1, <3>3
      <4> QED
        BY <1>2, <2>5, <3>1, <4>1 DEF Chained
    <3> QED
      BY <3>2, <3>3
  <2>7. Stacked(frames)' /\ Chained(frames)' /\ Grounded'
    BY <1>1, <1>2, <2>0, <2>1, <2>3, <2>6, StackedStays, ChainedStays, GroundedStays
  <2> QED
    BY <1>1, <1>8, <2>7, Going
<1> QED
  BY <1>6, <1>7, <1>8

\* An instance whose children are elaborated is left.
LEMMA LeaveInstanceKeeps == ASSUME CompilerInv, LeaveInstance PROVE CompilerInv'
<1>0. PICK fs : fs = Below
  OBVIOUS
<1>1. /\ status = "elaborating" /\ frames # <<>> /\ frames' = fs /\ files' = files
      /\ UNCHANGED loading /\ UNCHANGED <<visit, validated, tree>>
  BY <1>0 DEF LeaveInstance, loading
<1>2. Grounded /\ Stacked(frames) /\ Chained(frames)
  BY <1>1 DEF CompilerInv
<1>3. /\ Len(frames) \in Nat \ {0} /\ IsSequence(fs) /\ Len(fs) = Len(frames) - 1
      /\ \A k \in 1..Len(fs) : fs[k] = frames[k] /\ k \in 1..Len(frames) /\ k < Len(frames)
  BY <1>0, <1>1, <1>2, Popping
<1>4. Stacked(fs)
  BY <1>2, <1>3 DEF Stacked
<1>5. Chained(fs)
  <2> SUFFICES ASSUME NEW k \in 1..Len(fs), k < Len(fs)
               PROVE  fs[k + 1].module \in Children(fs[k].module)
    BY DEF Chained
  <2>1. k + 1 \in 1..Len(fs)
    BY <1>3
  <2> QED
    BY <1>2, <1>3, <2>1 DEF Chained
<1>6. Stacked(frames)' /\ Chained(frames)' /\ Grounded'
  BY <1>1, <1>2, <1>4, <1>5, StackedStays, ChainedStays, GroundedStays
<1> QED
  BY <1>1, <1>6, Going

\* The walk of elaborate_design ends with the top instance.
LEMMA ElaboratedKeeps == ASSUME CompilerInv, Elaborated PROVE CompilerInv'
<1>1. /\ status = "elaborating" /\ status' = "elaborated"
      /\ UNCHANGED <<disk, call, cursor, pending, seen, provided, files, visit, frames, validated, tree>>
  BY DEF Elaborated, Become, walking
<1>2. LoadInv' /\ FilesKept' /\ Grounded'
  BY <1>1, LoadedStays, GroundedStays DEF Loads, CompilerInv
<1> QED
  BY <1>1, <1>2 DEF CompilerInv, Loads, Elaborates

-----------------------------------------------------------------------------
(* Every compilation. *)

\* The invariant holds before anything is loaded.
LEMMA CompilerStarts == CompilerInit => CompilerInv
<1> SUFFICES ASSUME CompilerInit PROVE CompilerInv
  OBVIOUS
<1>1. /\ status = "start" /\ files = <<>> /\ pending = <<>> /\ LoadInv
      /\ frames = <<>> /\ validated = {} /\ tree = <<>>
  BY LoadInit DEF CompilerInit, Init
<1>2. FilesKept /\ Grounded
  BY <1>1, EmptySequence DEF FilesKept, Grounded
<1> QED
  BY <1>1, <1>2 DEF CompilerInv, Loads, Elaborates

\* Loading comes before the walks.
LEMMA LoadingKeeps == ASSUME CompilerInv, Load, UNCHANGED walking PROVE CompilerInv'
<1>1. UNCHANGED <<visit, frames, validated, tree>>
  BY DEF walking
<1>2. status \in {"start", "loading"}
  BY DEF Load, RootFails, LoadRoot, Instantiation, NextModule, LoadNext, Loaded
<1>3. validated = {} /\ frames = <<>> /\ tree = <<>> /\ LoadInv /\ FilesKept
  BY <1>2 DEF CompilerInv, Loads, Elaborates
<1>4. LoadInv' /\ FilesKept'
  BY <1>3, LoadStep, LoadKeeps
<1>5. status' \in {"start", "loading", "loaded", "io", "parse", "empty", "duplicate", "not found"}
  BY <1>2 DEF Load, RootFails, LoadRoot, Instantiation, NextModule, LoadNext, Loaded, Stop
<1>6. Grounded'
  BY <1>1, <1>3 DEF Grounded
<1> QED
  BY <1>1, <1>3, <1>4, <1>5, <1>6 DEF CompilerInv, Loads, Elaborates

\* Every step of a compilation keeps the invariant.
LEMMA CompilerSteps == CompilerInv /\ [Next]_vars => CompilerInv'
<1> SUFFICES ASSUME CompilerInv, [Next]_vars PROVE CompilerInv'
  OBVIOUS
<1>1. CASE Load /\ UNCHANGED walking
  BY <1>1, LoadingKeeps
<1>2. CASE StartValidation
  BY <1>2, StartValidationKeeps
<1>3. CASE VisitModule
  BY <1>3, VisitModuleKeeps
<1>4. CASE NextFile
  BY <1>4, NextFileVisited
<1>5. CASE VisitInstance
  BY <1>5, VisitInstanceKeeps
<1>6. CASE LeaveModule
  BY <1>6, LeaveModuleKeeps
<1>7. CASE Validated
  BY <1>7, ValidatedKeeps
<1>8. CASE StartElaboration
  BY <1>8, StartElaborationKeeps
<1>9. CASE ElaborateInstance
  BY <1>9, ElaborateInstanceKeeps
<1>10. CASE LeaveInstance
  BY <1>10, LeaveInstanceKeeps
<1>11. CASE Elaborated
  BY <1>11, ElaboratedKeeps
<1>12. CASE UNCHANGED vars
  <2>1. UNCHANGED <<disk, call, status, cursor, pending, seen, provided, files,
                    visit, frames, validated, tree>>
    BY <1>12 DEF vars, loading, walking
  <2>2. PICK fs : fs = frames
    OBVIOUS
  <2>3. LoadInv' /\ FilesKept' /\ Grounded'
    BY <2>1, LoadStep, FilesStay, GroundedStays DEF CompilerInv, loading
  <2>4. /\ Stacked(fs) => Stacked(frames)'
        /\ Entered(fs) => Entered(frames)'
        /\ Visited(fs) => Visited(frames)'
        /\ Chained(fs) => Chained(frames)'
    BY <2>1, <2>2, StackedStays, EnteredStays, VisitedStays, ChainedStays
  <2>5. /\ status = "validating" => Stacked(fs) /\ Entered(fs) /\ Visited(fs)
        /\ status = "elaborating" => Stacked(fs) /\ Chained(fs)
    BY <2>2 DEF CompilerInv
  <2>6. Compiled' = Compiled
    BY <2>1, ModulesStay
  <2> QED
    BY <2>1, <2>3, <2>4, <2>5, <2>6 DEF CompilerInv, Loads, Elaborates
<1> QED
  BY <1>1, <1>2, <1>3, <1>4, <1>5, <1>6, <1>7, <1>8, <1>9, <1>10, <1>11, <1>12 DEF Next

\* What validate_design lets pass, elaborate_design does not refuse for a
\* cycle or a missing module, whatever the files on the disk are, whatever is
\* asked of one module or instance, and whatever values parameters have.
THEOREM ElaborationIsFinite == Spec => []CompiledElaborates
<1>1. CompilerInv => CompiledElaborates
  BY DEF CompilerInv, Elaborates, CompiledElaborates
<1> QED
  BY <1>1, CompilerStarts, CompilerSteps, PTL DEF Spec

\* What becomes of a compilation after its files are loaded.
Later == {"validating", "compiled", "elaborating", "elaborated",
          "recursive", "missing", "invalid", "parameter", "frozen"}

\* A step of a compilation is one of its loader, or comes after it.
LEMMA LoadingOrLater == ASSUME [Next]_vars PROVE [Load]_loading \/ \E s \in Later : Become(s)
<1>1. CASE Load
  BY <1>1
<1>2. CASE UNCHANGED vars
  BY <1>2 DEF vars
<1>3. CASE StartValidation \/ Validated \/ Elaborated
  BY <1>3, Zenon DEF StartValidation, Validated, Elaborated, Later
<1>4. CASE VisitModule \/ VisitInstance
  BY <1>4, Zenon DEF VisitModule, VisitInstance, Enter, Later
<1>5. CASE NextFile \/ LeaveModule \/ LeaveInstance
  BY <1>5, Zenon DEF NextFile, LeaveModule, LeaveInstance
<1>6. CASE StartElaboration \/ ElaborateInstance
  BY <1>6, Zenon DEF StartElaboration, ElaborateInstance, Elaborate, Later
<1> QED
  BY <1>1, <1>2, <1>3, <1>4, <1>5, <1>6 DEF Next

\* The walks do not undo what the loader has done.
LEMMA LaterKeepsLibrary == ASSUME ConventionInv, [Next]_vars PROVE ConventionInv'
<1>1. CASE [Load]_loading
  BY <1>1, ConventionStep
<1>2. ASSUME NEW s \in Later, Become(s) PROVE ConventionInv'
  <2>1. /\ status' = s /\ status' \notin {"start", "loading", "loaded", "duplicate"}
        /\ UNCHANGED <<disk, call, cursor, pending, seen, provided, files>>
    BY <1>2 DEF Become, Later
  <2>2. LoadInv'
    BY <2>1 DEF ConventionInv, LoadInv, Separate
  <2>3. ASSUME Conventional', call'.op = "file" PROVE LibraryInv'
    <3>1. LibraryInv
      BY <2>1, <2>3 DEF ConventionInv, Conventional
    <3> QED
      BY <2>1, <3>1, LibraryStays
  <2> QED
    BY <2>2, <2>3 DEF ConventionInv
<1> QED
  BY <1>1, <1>2, LoadingOrLater

\* In a compilation, too, a module that is refused as defined twice is, and a
\* conventional library is loaded as it is meant to be.
THEOREM CompilationLoads == Spec => [](DuplicatesAreReal /\ ConventionLoads)
<1>1. CompilerInit => ConventionInv
  BY LibraryInit DEF CompilerInit
<1>2. ConventionInv /\ [Next]_vars => ConventionInv'
  BY LaterKeepsLibrary
<1>3. ConventionInv => DuplicatesAreReal /\ ConventionLoads
  BY NotReadTwice, LibraryLoads DEF ConventionInv
<1> QED
  BY <1>1, <1>2, <1>3, PTL DEF Spec

-----------------------------------------------------------------------------
(* What validation has asked of modules and their instances.               *)

\* The j-th instance of a module was let pass in it.
FitsAt(n, j) ==
  Fits(Module(n), Module(n).instances[j], Module(Module(n).instances[j].module))

\* A module was let pass, and its instances before a place were.
PassedTo(n, at) ==
  /\ Passes(Module(n))
  /\ \A j \in 1..Len(Module(n).instances) : j < at => FitsAt(n, j)

Sound(n) == Passes(Module(n)) /\ \A j \in 1..Len(Module(n).instances) : FitsAt(n, j)

\* Whatever is validated is sound, and what is being validated up to its place.
PassedFrames(fs) == \A k \in 1..Len(fs) : PassedTo(fs[k].module, fs[k].at)

ChecksInv ==
  /\ \A n \in validated : Sound(n)
  /\ status = "validating" => PassedFrames(frames)

\* This is kept when the files are, and what is said of frames with them.
LEMMA SoundStays == ASSUME files' = files, NEW n, Sound(n) PROVE Sound(n)'
<1>1. \A m : Module(m)' = Module(m)
  BY ModulesStay
<1> QED
  BY <1>1 DEF Sound, FitsAt

LEMMA PassedStays ==
  ASSUME files' = files, NEW fs, PassedFrames(fs), frames' = fs PROVE PassedFrames(frames)'
<1>1. \A m : Module(m)' = Module(m)
  BY ModulesStay
<1> QED
  BY <1>1 DEF PassedFrames, PassedTo, FitsAt

\* An entered module was let pass.
LEMMA EnterPasses ==
  ASSUME ChecksInv, status = "validating", NEW n, NEW below, IsSequence(below), PassedFrames(below),
         Enter(n, below), UNCHANGED validated
  PROVE  ChecksInv'
<1>1. CASE n \notin validated /\ (OnStack(n) \/ \E m \in {Module(n)} : ~Passes(m))
  <2>1. status' \in {"recursive", "invalid"} /\ files' = files
    BY <1>1, Zenon DEF Enter, Become
  <2> QED
    BY <2>1, SoundStays DEF ChecksInv
<1>2. CASE n \in validated
  <2>1. frames' = below /\ status' = status /\ files' = files
    BY <1>2 DEF Enter, loading
  <2> QED
    BY <2>1, SoundStays, PassedStays DEF ChecksInv
<1>3. CASE n \notin validated /\ ~OnStack(n) /\ ~ \E m \in {Module(n)} : ~Passes(m)
  <2>1. frames' = Append(below, Frame(n, <<>>)) /\ status' = status /\ files' = files
    BY <1>3 DEF Enter, loading
  <2>2. PICK fs : fs = Append(below, Frame(n, <<>>))
    OBVIOUS
  <2>3. PassedFrames(fs)
    <3>1. /\ Len(below) \in Nat
          /\ \A k \in 1..Len(below) : fs[k] = below[k]
          /\ \A k \in 1..Len(fs) : k \in 1..Len(below) \/ k = Len(below) + 1
          /\ fs[Len(below) + 1] = [module |-> n, at |-> 1, path |-> <<>>]
      BY <2>2, Pushing
    <3>2. fs[Len(below) + 1].module = n /\ fs[Len(below) + 1].at = 1
      BY <3>1
    <3>3. Passes(Module(n))
      BY <1>3
    <3>4. PassedTo(n, 1)
      BY <3>3 DEF PassedTo
    <3> QED
      BY <3>1, <3>2, <3>4 DEF PassedFrames
  <2> QED
    BY <2>1, <2>2, <2>3, SoundStays, PassedStays DEF ChecksInv
<1> QED
  BY <1>1, <1>2, <1>3

\* An instance that fits is passed.
LEMMA AdvancedPasses ==
  ASSUME Stacked(frames), frames # <<>>, Ahead, PassedFrames(frames), InstanceAllowed
  PROVE  PassedFrames(Advanced)
<1> DEFINE L == Len(frames)
<1>1. /\ L \in Nat \ {0} /\ Len(Advanced) = L
      /\ \A k \in 1..L : Advanced[k].module = frames[k].module
      /\ \A k \in 1..L : k < L => Advanced[k] = frames[k]
      /\ Advanced[L].at = Top.at + 1
  BY Advancing
<1>2. FitsAt(Top.module, Top.at)
  BY DEF InstanceAllowed, FitsAt, Inst
<1>3. PassedTo(Top.module, Top.at) /\ Top.at \in Nat
  <2>1. L \in 1..L
    BY <1>1
  <2>2. PassedTo(frames[L].module, frames[L].at) /\ IsFrame(frames[L])
    BY <2>1 DEF PassedFrames, Stacked
  <2> QED
    BY <2>2 DEF Top, IsFrame
<1>4. ASSUME NEW j \in 1..Len(Module(Top.module).instances), j < Top.at + 1 PROVE FitsAt(Top.module, j)
  BY <1>2, <1>3, <1>4 DEF PassedTo
<1>5. PassedTo(Top.module, Top.at + 1)
  BY <1>3, <1>4 DEF PassedTo
<1>6. ASSUME NEW k \in 1..L PROVE PassedTo(Advanced[k].module, Advanced[k].at)
  <2>1. CASE k = L
    BY <1>1, <1>5, <2>1 DEF Top
  <2>2. CASE k # L
    <3>1. Advanced[k] = frames[k]
      BY <1>1, <2>2
    <3> QED
      BY <3>1 DEF PassedFrames
  <2> QED
    BY <2>1, <2>2
<1> QED
  BY <1>1, <1>6 DEF PassedFrames

\* A module whose instances are passed is sound.
LEMMA LeavingIsSound ==
  ASSUME CompilerInv, ChecksInv, LeaveModule PROVE ChecksInv'
<1>0. PICK n, fs : n = Top.module /\ fs = Below
  OBVIOUS
<1>1. /\ status = "validating" /\ frames # <<>> /\ ~Ahead
      /\ frames' = fs /\ validated' = validated \cup {n}
      /\ files' = files
  BY <1>0 DEF LeaveModule, loading
<1>2. LoadInv /\ FilesKept /\ Stacked(frames) /\ PassedFrames(frames)
  BY <1>1 DEF CompilerInv, ChecksInv
<1>3. /\ Len(frames) \in 1..Len(frames) /\ Len(fs) \in Nat
      /\ \A k \in 1..Len(fs) : fs[k] = frames[k] /\ k \in 1..Len(frames)
  BY <1>0, <1>1, <1>2, Popping
<1>4. PassedTo(n, Top.at) /\ n \in Compiled /\ Top.at \in Nat
  <2>1. PassedTo(frames[Len(frames)].module, frames[Len(frames)].at) /\ IsFrame(frames[Len(frames)])
    BY <1>2, <1>3 DEF PassedFrames, Stacked
  <2> QED
    BY <1>0, <2>1 DEF Top, IsFrame
<1>5. Sound(n)
  <2>1. Len(Module(n).instances) \in Nat
    BY <1>2, <1>4, ModuleOfName
  <2>2. \A j \in 1..Len(Module(n).instances) : j < Top.at
    BY <1>0, <1>1, <1>4, <2>1 DEF Ahead
  <2> QED
    BY <1>4, <2>2 DEF PassedTo, Sound
<1>6. PassedFrames(fs)
  <2> SUFFICES ASSUME NEW k \in 1..Len(fs) PROVE PassedTo(fs[k].module, fs[k].at)
    BY DEF PassedFrames
  <2>1. fs[k] = frames[k] /\ k \in 1..Len(frames)
    BY <1>3
  <2>2. PassedTo(frames[k].module, frames[k].at)
    BY <1>2, <2>1 DEF PassedFrames
  <2> QED
    BY <2>1, <2>2
<1>7. PassedFrames(frames)'
  BY <1>1, <1>6, PassedStays
<1>8. \A m \in validated' : Sound(m)'
  BY <1>1, <1>5, SoundStays DEF ChecksInv
<1> QED
  BY <1>7, <1>8 DEF ChecksInv

\* So every step keeps what validation has asked.
LEMMA ChecksStep == ASSUME CompilerInv, ChecksInv, [Next]_vars PROVE ChecksInv'
<1>1. CASE Load /\ UNCHANGED walking
  <2>1. status \in {"start", "loading"} /\ validated' = validated
    BY <1>1 DEF walking, Load, RootFails, LoadRoot, Instantiation, NextModule, LoadNext, Loaded
  <2>2. status' \in {"start", "loading", "loaded", "io", "parse", "empty", "duplicate", "not found"}
    BY <1>1, <2>1 DEF Load, RootFails, LoadRoot, Instantiation, NextModule, LoadNext, Loaded, Stop
  <2>3. validated = {}
    BY <2>1 DEF CompilerInv, Loads
  <2> QED
    BY <2>1, <2>2, <2>3 DEF ChecksInv
<1>2. CASE StartValidation
  <2>1. status = "loaded" /\ UNCHANGED <<frames, validated>>
    BY <1>2 DEF StartValidation
  <2>2. frames = <<>> /\ validated = {}
    BY <2>1 DEF CompilerInv, Loads
  <2>3. frames' = <<>> /\ validated' = {} /\ Len(<<>>) = 0
    BY <2>1, <2>2, EmptySequence
  <2> QED
    BY <2>3 DEF ChecksInv, PassedFrames
<1>3. CASE VisitModule
  <2>1. PICK n, none : n = files[visit[1]].modules[visit[2]].name /\ none = <<>>
    OBVIOUS
  <2>2. status = "validating" /\ Enter(n, none) /\ validated' = validated
    BY <1>3, <2>1, Zenon DEF VisitModule
  <2>3. IsSequence(none) /\ Len(none) = 0
    BY <2>1, EmptySequence, Zenon
  <2>4. PassedFrames(none)
    BY <2>3 DEF PassedFrames
  <2> QED
    BY <2>2, <2>3, <2>4, EnterPasses
<1>4. CASE VisitInstance
  <2>1. PICK n, adv : n = Inst.module /\ adv = Advanced
    OBVIOUS
  <2>2. status = "validating" /\ frames # <<>> /\ Ahead /\ validated' = validated
    BY <1>4 DEF VisitInstance
  <2>3. Stacked(frames) /\ PassedFrames(frames)
    BY <2>2 DEF CompilerInv, ChecksInv
  <2>4. CASE Become("missing") \/ Become("invalid")
    <3>1. status' \in {"missing", "invalid"} /\ files' = files
      BY <2>4 DEF Become
    <3> QED
      BY <2>2, <3>1, SoundStays DEF ChecksInv
  <2>5. CASE InstanceAllowed /\ Enter(n, adv)
    <3>1. IsSequence(adv)
      BY <2>1, <2>2, <2>3, Advancing DEF Stacked
    <3>2. PassedFrames(adv)
      BY <2>1, <2>2, <2>3, <2>5, AdvancedPasses
    <3> QED
      BY <2>2, <2>5, <3>1, <3>2, EnterPasses
  <2> QED
    BY <1>4, <2>1, <2>4, <2>5, Zenon DEF VisitInstance
<1>5. CASE LeaveModule
  BY <1>5, LeavingIsSound
<1>6. CASE NextFile \/ UNCHANGED vars
  <2>1. PICK fs : fs = frames
    OBVIOUS
  <2>2. files' = files /\ validated' = validated /\ frames' = fs /\ status' = status
    BY <1>6, <2>1 DEF NextFile, vars, loading, walking
  <2> QED
    BY <2>1, <2>2, SoundStays, PassedStays DEF ChecksInv
<1>7. CASE Validated \/ StartElaboration \/ ElaborateInstance \/ LeaveInstance \/ Elaborated
  <2>1. status' # "validating" /\ files' = files /\ validated' = validated
    <3>1. CASE Validated \/ Elaborated
      BY <1>7, <3>1 DEF Validated, Elaborated, Become, walking
    <3>2. CASE StartElaboration
      <4>1. validated' = validated /\ (Become("elaborating") \/ Become("parameter"))
        BY <3>2, Zenon DEF StartElaboration
      <4> QED
        BY <4>1 DEF Become
    <3>3. CASE ElaborateInstance
      <4>1. /\ validated' = validated /\ status = "elaborating"
            /\ \/ UNCHANGED loading \/ Become("recursive") \/ Become("missing")
               \/ Become("parameter") \/ Become("frozen")
        BY <3>3, Zenon DEF ElaborateInstance, Elaborate
      <4> QED
        BY <4>1 DEF Become, loading
    <3>4. CASE LeaveInstance
      BY <3>4 DEF LeaveInstance, loading
    <3> QED
      BY <1>7, <3>1, <3>2, <3>3, <3>4
  <2> QED
    BY <2>1, SoundStays DEF ChecksInv
<1> QED
  BY <1>1, <1>2, <1>3, <1>4, <1>5, <1>6, <1>7 DEF Next

-----------------------------------------------------------------------------
(* The hierarchy.  An instance is elaborated at a path of its own, so that *)
(* nothing that is in the tree is overwritten, and what is still missing   *)
(* below an instance is ahead of the frame that is at its path.            *)

\* The j-th instance of the module of an elaborated one is elaborated.
InstancesAt(p) == Module(tree[p].inst.module).instances

HasChild(p, j) ==
  LET c == Append(p, InstancesAt(p)[j].name)
  IN  c \in DOMAIN tree /\ tree[c].inst = InstancesAt(p)[j]

\* An entry of the tree, and what it owes to validation and to its parent.
ElaboratedAt(p) ==
  /\ IsSequence(p)
  /\ tree[p].inst.module \in Compiled /\ Passes(Module(tree[p].inst.module))
  /\ HasAll(tree[p].params)
  /\ p = <<>> \/ StandsIn(p)

\* A frame is at an instance of its module, whose elaborated children it has passed.
FrameAt(f) ==
  /\ f.path \in DOMAIN tree /\ tree[f.path].inst.module = f.module
  /\ \A c \in DOMAIN tree : c # <<>> /\ tree[c].parent = f.path =>
       \E j \in 1..Len(InstancesAt(f.path)) : j < f.at /\ tree[c].inst = InstancesAt(f.path)[j]

PathsApart(fs) == \A i, k \in 1..Len(fs) : fs[i].path = fs[k].path => i = k

\* A child is there, or ahead of a frame.
Due(fs, p, j) == HasChild(p, j) \/ \E k \in 1..Len(fs) : fs[k].path = p /\ ~(j < fs[k].at)

Growing(fs) ==
  /\ \A k \in 1..Len(fs) : FrameAt(fs[k])
  /\ PathsApart(fs)
  /\ \A p \in DOMAIN tree : \A j \in 1..Len(InstancesAt(p)) : Due(fs, p, j)

TreeInv ==
  /\ \A p \in DOMAIN tree : ElaboratedAt(p)
  /\ status = "elaborating" => Growing(frames)
  /\ HierarchyWhole

\* Append forgets nothing.
LEMMA AppendsApart ==
  ASSUME NEW s, IsSequence(s), NEW t, IsSequence(t), NEW a, NEW b, Append(s, a) = Append(t, b)
  PROVE  s = t /\ a = b
<1>1. /\ Len(s) \in Nat /\ Len(Append(s, a)) = Len(s) + 1
      /\ \A k \in 1..Len(s) : Append(s, a)[k] = s[k]
      /\ Append(s, a)[Len(s) + 1] = a
  BY Appending
<1>2. /\ Len(t) \in Nat /\ Len(Append(t, b)) = Len(t) + 1
      /\ \A k \in 1..Len(t) : Append(t, b)[k] = t[k]
      /\ Append(t, b)[Len(t) + 1] = b
  BY Appending
<1>3. Len(s) = Len(t) /\ a = b /\ \A k \in 1..Len(s) : s[k] = t[k]
  BY <1>1, <1>2
<1>4. s = [k \in 1..Len(s) |-> s[k]] /\ t = [k \in 1..Len(t) |-> t[k]]
  BY DEF IsSequence
<1>5. [k \in 1..Len(s) |-> s[k]] = [k \in 1..Len(t) |-> t[k]]
  BY <1>3
<1> QED
  BY <1>3, <1>4, <1>5

\* A path with a last name is not that of the top.
LEMMA AppendedIsNotEmpty == ASSUME NEW s, IsSequence(s), NEW a PROVE Append(s, a) # <<>>
<1>1. PICK e : e = <<>>
  OBVIOUS
<1>2. Len(e) = 0
  BY <1>1, EmptySequence, Zenon
<1>3. Len(s) \in Nat /\ Len(Append(s, a)) = Len(s) + 1
  BY Appending
<1>4. Append(s, a) # e
  BY <1>2, <1>3
<1> QED
  BY <1>1, <1>4, Zenon

\* A frame that looks at an instance comes to a path that is not in the tree.
LEMMA PathIsNew ==
  ASSUME NEW f, NEW j, FrameAt(f), \A p \in DOMAIN tree : ElaboratedAt(p),
         j = f.at, j \in 1..Len(Module(f.module).instances), NamedApart(Module(f.module)), f.at \in Nat
  PROVE  Append(f.path, Module(f.module).instances[j].name) \notin DOMAIN tree
<1> DEFINE q == f.path
           m == Module(f.module)
           c == Append(q, m.instances[j].name)
<1>1. q \in DOMAIN tree /\ InstancesAt(q) = m.instances /\ IsSequence(q)
  BY DEF FrameAt, InstancesAt, ElaboratedAt
<1> SUFFICES ASSUME c \in DOMAIN tree PROVE FALSE
  OBVIOUS
<1>2. c # <<>>
  BY <1>1, AppendedIsNotEmpty
<1>3. StandsIn(c)
  BY <1>2 DEF ElaboratedAt
<1>4. tree[c].parent \in DOMAIN tree /\ c = Append(tree[c].parent, tree[c].inst.name)
  BY <1>3 DEF StandsIn
<1>5. tree[c].parent = q /\ tree[c].inst.name = m.instances[j].name
  <2>1. PICK t, a, b : t = tree[c].parent /\ a = tree[c].inst.name /\ b = m.instances[j].name
    OBVIOUS
  <2>2. IsSequence(t)
    BY <1>4, <2>1 DEF ElaboratedAt
  <2>3. Append(t, a) = Append(q, b)
    BY <1>4, <2>1
  <2>4. t = q /\ a = b
    BY <1>1, <2>2, <2>3, AppendsApart
  <2> QED
    BY <2>1, <2>4
<1>6. PICK i \in 1..Len(m.instances) : i < f.at /\ tree[c].inst = m.instances[i]
  BY <1>1, <1>2, <1>5 DEF FrameAt
<1>7. i = j
  BY <1>5, <1>6 DEF NamedApart
<1> QED
  BY <1>6, <1>7

\* With the files and the tree stay the instances that are elaborated.
LEMMA ElaboratedStays ==
  ASSUME files' = files, tree' = tree, \A p \in DOMAIN tree : ElaboratedAt(p)
  PROVE  (\A p \in DOMAIN tree : ElaboratedAt(p))'
<1>1. Compiled' = Compiled /\ \A n : Module(n)' = Module(n)
  BY ModulesStay
<1> QED
  BY <1>1 DEF ElaboratedAt, StandsIn

LEMMA GrowingStays ==
  ASSUME files' = files, tree' = tree, NEW fs, Growing(fs), frames' = fs PROVE Growing(frames)'
<1>1. \A n : Module(n)' = Module(n)
  BY ModulesStay
<1> QED
  BY <1>1 DEF Growing, FrameAt, PathsApart, Due, HasChild, InstancesAt

\* Before elaboration there is no tree.
LEMMA NoTree == ASSUME tree = <<>>, status \notin {"elaborating", "elaborated"} PROVE TreeInv
<1>1. PICK none : none = <<>>
  OBVIOUS
<1>2. DOMAIN none = {}
  BY <1>1
<1>3. DOMAIN tree = {}
  BY <1>1, <1>2, Zenon
<1> QED
  BY <1>3 DEF TreeInv, HierarchyWhole

LEMMA StillNoTree ==
  ASSUME tree' = <<>>, status' \notin {"elaborating", "elaborated"} PROVE TreeInv'
<1>1. PICK none : none = <<>>
  OBVIOUS
<1>2. DOMAIN none = {}
  BY <1>1
<1>3. DOMAIN tree' = {}
  BY <1>1, <1>2, Zenon
<1> QED
  BY <1>3 DEF TreeInv, HierarchyWhole

\* Elaboration starts with the top instance.
LEMMA TopIsElaborated ==
  ASSUME CompilerInv, ChecksInv, StartElaboration PROVE TreeInv'
<1>1. PICK e, n, v, top, f :
        /\ e = <<>> /\ n = TopModule /\ v = Values(Module(n), TopInstance, [k \in {} |-> 0])
        /\ top = Elaboration(TopInstance, e, v) /\ f = Frame(n, e)
  OBVIOUS
<1>2. IsSequence(e)
  BY <1>1, EmptySequence, Zenon
<1>3. status = "compiled"
  BY DEF StartElaboration
<1>4. LoadInv /\ FilesKept /\ Compiled \subseteq validated /\ files # <<>> /\ tree = <<>>
  BY <1>3 DEF CompilerInv, Elaborates
<1>5. n \in Compiled /\ Passes(Module(n))
  <2>1. n \in Compiled
    BY <1>1, <1>4, TopCompiled
  <2> QED
    BY <1>4, <2>1 DEF ChecksInv, Sound
<1>6. top.inst.module = n /\ top.parent = e /\ top.params = v
  BY <1>1 DEF Elaboration, TopInstance
<1>7. CASE Become("parameter") /\ UNCHANGED <<frames, tree>>
  <2>1. tree' = <<>> /\ status' = "parameter"
    BY <1>4, <1>7 DEF Become
  <2> QED
    BY <2>1, StillNoTree
<1>8. CASE /\ HasAll(v) /\ Become("elaborating") /\ frames' = <<f>>
           /\ tree' = [p \in {e} |-> top]
  <2>1. files' = files /\ status' = "elaborating"
    BY <1>8 DEF Become
  <2>2. Compiled' = Compiled /\ \A m : Module(m)' = Module(m)
    BY <2>1, ModulesStay
  <2>3. DOMAIN tree' = {e} /\ tree'[e] = top
    BY <1>8
  <2>4. ElaboratedAt(e)'
    BY <1>1, <1>2, <1>5, <1>6, <1>8, <2>2, <2>3, Zenon DEF ElaboratedAt
  <2>5. PICK fs : fs = <<f>>
    OBVIOUS
  <2>6. Len(fs) = 1 /\ fs[1] = f /\ frames' = fs
    BY <1>8, <2>5
  <2>7. f.module = n /\ f.at = 1 /\ f.path = e
    BY <1>1 DEF Frame
  <2>8. FrameAt(f)'
    BY <1>1, <1>6, <2>3, <2>7, Zenon DEF FrameAt
  <2>9. \A j \in 1..Len(InstancesAt(e)') : Due(frames, e, j)'
    <3> SUFFICES ASSUME NEW j \in 1..Len(InstancesAt(e)') PROVE Due(frames, e, j)'
      OBVIOUS
    <3>1. 1 \in 1..Len(fs) /\ fs[1].path = e /\ ~(j < fs[1].at)
      BY <2>6, <2>7
    <3> QED
      BY <2>6, <3>1 DEF Due
  <2>10. Growing(frames)'
    <3>0. \A k \in 1..Len(fs) : k = 1 /\ fs[k] = f
      <4> SUFFICES ASSUME NEW k \in 1..Len(fs) PROVE k = 1 /\ fs[k] = f
        OBVIOUS
      <4>1. k = 1
        BY <2>6
      <4> QED
        BY <2>6, <4>1
    <3>1. \A k \in 1..Len(frames') : k = 1 /\ frames'[k] = f
      BY <2>6, <3>0, Zenon
    <3>2. \A k \in 1..Len(frames') : FrameAt(frames[k])'
      BY <2>8, <3>1 DEF FrameAt
    <3>3. PathsApart(frames)'
      BY <3>1 DEF PathsApart
    <3>4. \A p \in DOMAIN tree' : \A j \in 1..Len(InstancesAt(p)') : Due(frames, p, j)'
      BY <2>3, <2>9
    <3> QED
      BY <3>2, <3>3, <3>4 DEF Growing
  <2> QED
    BY <2>1, <2>3, <2>4, <2>10 DEF TreeInv, HierarchyWhole
<1>9. \/ Become("parameter") /\ UNCHANGED <<frames, tree>>
      \/ HasAll(v) /\ Become("elaborating") /\ frames' = <<f>> /\ tree' = [p \in {e} |-> top]
  BY <1>1, Zenon DEF StartElaboration
<1> QED
  BY <1>7, <1>8, <1>9

\* A tree that grows by one instance, at a path that is new.
Grows(c, e) ==
  /\ c \notin DOMAIN tree
  /\ tree' = [p \in DOMAIN tree \cup {c} |-> IF p = c THEN e ELSE tree[p]]

LEMMA GrownTree ==
  ASSUME NEW c, NEW e, Grows(c, e)
  PROVE  /\ DOMAIN tree' = DOMAIN tree \cup {c} /\ tree'[c] = e
         /\ \A p \in DOMAIN tree : tree'[p] = tree[p] /\ p # c
  BY DEF Grows

\* What is elaborated stands where it stood.
LEMMA StandsStill ==
  ASSUME files' = files, NEW c, NEW e, Grows(c, e), NEW p \in DOMAIN tree, ElaboratedAt(p)
  PROVE  ElaboratedAt(p)'
<1>1. Compiled' = Compiled /\ \A n : Module(n)' = Module(n)
  BY ModulesStay
<1>2. DOMAIN tree' = DOMAIN tree \cup {c} /\ tree'[p] = tree[p]
  BY GrownTree
<1>3. ASSUME p # <<>> PROVE StandsIn(p)'
  <2>1. StandsIn(p) /\ tree[p].parent \in DOMAIN tree
    BY <1>3 DEF ElaboratedAt, StandsIn
  <2>2. tree'[tree[p].parent] = tree[tree[p].parent]
    BY <2>1, GrownTree
  <2> QED
    BY <1>1, <1>2, <2>1, <2>2 DEF StandsIn
<1> QED
  BY <1>1, <1>2, <1>3 DEF ElaboratedAt

\* The step that elaborates an instance: where it is, and what it has found.
LEMMA ElaboratesAhead ==
  ASSUME CompilerInv, ChecksInv, TreeInv, ElaborateInstance,
         \A m : Passes(m) => NamedApart(m)
  PROVE  LET L    == Len(frames)
             t    == Top
             q    == Top.path
             inst == Module(Top.module).instances[Top.at]
         IN  /\ L \in Nat \ {0} /\ t = frames[L] /\ FrameAt(t)
             /\ t.at \in 1..Len(InstancesAt(q)) /\ InstancesAt(q) = Module(t.module).instances
             /\ q \in DOMAIN tree /\ IsSequence(q) /\ inst = Inst
             /\ inst.module \in Compiled /\ ~OnStack(inst.module)
             /\ Append(q, inst.name) \notin DOMAIN tree
<1>1. status = "elaborating" /\ frames # <<>> /\ Ahead
  BY DEF ElaborateInstance
<1>2. /\ LoadInv /\ FilesKept /\ Grounded /\ Stacked(frames) /\ Chained(frames)
      /\ Compiled \subseteq validated /\ Growing(frames) /\ \A p \in DOMAIN tree : ElaboratedAt(p)
  BY <1>1 DEF CompilerInv, TreeInv
<1>3. Len(frames) \in Nat \ {0} /\ Len(frames) \in 1..Len(frames)
  BY <1>1, <1>2, Popping
<1>4. FrameAt(Top) /\ IsFrame(Top)
  BY <1>2, <1>3 DEF Growing, Stacked, Top
<1>5. Top.path \in DOMAIN tree /\ InstancesAt(Top.path) = Module(Top.module).instances
  BY <1>4 DEF FrameAt, InstancesAt
<1>6. IsSequence(Top.path)
  BY <1>2, <1>5 DEF ElaboratedAt
<1>7. Top.at \in 1..Len(Module(Top.module).instances) /\ Inst.module \in Children(Top.module)
  BY <1>1, <1>2, InstAhead
<1>8. Top.module \in Compiled /\ Top.at \in Nat
  BY <1>4 DEF IsFrame
<1>9. Inst.module \in Compiled
  BY <1>2, <1>7, <1>8 DEF Grounded
<1>10. ~OnStack(Inst.module)
  BY <1>1, <1>2, <1>7, NoCycle
<1>11. NamedApart(Module(Top.module))
  BY <1>2, <1>8 DEF ChecksInv, Sound
<1>12. Append(Top.path, Module(Top.module).instances[Top.at].name) \notin DOMAIN tree
  <2>1. PICK f, j : f = Top /\ j = Top.at
    OBVIOUS
  <2>2. Append(f.path, Module(f.module).instances[j].name) \notin DOMAIN tree
    BY <1>2, <1>4, <1>7, <1>8, <1>11, <2>1, PathIsNew
  <2> QED
    BY <2>1, <2>2
<1> QED
  BY <1>3, <1>4, <1>5, <1>6, <1>7, <1>9, <1>10, <1>12 DEF Inst, Top

\* The stack after an instance is entered: the top has gone on, and the
\* instance is above it.
Entering(fs, n, c) ==
  LET L == Len(frames)
  IN  /\ Len(fs) = L + 1
      /\ \A k \in 1..Len(fs) : (k \in 1..L /\ k < L) \/ k = L \/ k = L + 1
      /\ \A k \in 1..L : k < L => fs[k] = frames[k]
      /\ fs[L].module = frames[L].module /\ fs[L].at = frames[L].at + 1 /\ fs[L].path = frames[L].path
      /\ fs[L + 1].module = n /\ fs[L + 1].at = 1 /\ fs[L + 1].path = c

LEMMA EntersInstance ==
  ASSUME Stacked(frames), frames # <<>>, NEW n, NEW c, NEW fs, fs = Append(Advanced, Frame(n, c))
  PROVE  Entering(fs, n, c)
<1> DEFINE L == Len(frames)
<1>1. /\ L \in Nat \ {0} /\ Len(Advanced) = L /\ IsSequence(Advanced)
      /\ \A k \in 1..L : Advanced[k].module = frames[k].module
      /\ \A k \in 1..L : k < L => Advanced[k] = frames[k]
      /\ Advanced[L].at = frames[L].at + 1 /\ Advanced[L].path = frames[L].path
  BY Advancing DEF Stacked, Top
<1>2. /\ Len(fs) = L + 1
      /\ \A k \in 1..L : fs[k] = Advanced[k]
      /\ fs[L + 1] = [module |-> n, at |-> 1, path |-> c]
  BY <1>1, Pushing
<1>3. \A k \in 1..Len(fs) : (k \in 1..L /\ k < L) \/ k = L \/ k = L + 1
  BY <1>1, <1>2
<1>4. \A k \in 1..L : k < L => fs[k] = frames[k]
  BY <1>1, <1>2
<1>5. fs[L].module = frames[L].module /\ fs[L].at = frames[L].at + 1 /\ fs[L].path = frames[L].path
  <2>1. L \in 1..L
    BY <1>1
  <2> QED
    BY <1>1, <1>2, <2>1
<1>6. fs[L + 1].module = n /\ fs[L + 1].at = 1 /\ fs[L + 1].path = c
  BY <1>2
<1> QED
  BY <1>2, <1>3, <1>4, <1>5, <1>6 DEF Entering

\* A frame of the stack below stays at its instance.
LEMMA FrameStays ==
  ASSUME files' = files, NEW c, NEW e, Grows(c, e), NEW f, FrameAt(f), e.parent # f.path
  PROVE  FrameAt(f)'
<1>1. \A n : Module(n)' = Module(n)
  BY ModulesStay
<1>2. DOMAIN tree' = DOMAIN tree \cup {c} /\ tree'[c] = e /\ \A p \in DOMAIN tree : tree'[p] = tree[p]
  BY GrownTree
<1>3. f.path \in DOMAIN tree /\ tree[f.path].inst.module = f.module
  BY DEF FrameAt
<1>4. InstancesAt(f.path)' = InstancesAt(f.path)
  BY <1>1, <1>2, <1>3 DEF InstancesAt
<1>5. ASSUME NEW d \in DOMAIN tree', d # <<>>, tree'[d].parent = f.path
      PROVE  \E j \in 1..Len(InstancesAt(f.path)) : j < f.at /\ tree'[d].inst = InstancesAt(f.path)[j]
  <2>1. d \in DOMAIN tree /\ tree'[d] = tree[d]
    BY <1>2, <1>5
  <2> QED
    BY <1>5, <2>1 DEF FrameAt
<1> QED
  BY <1>2, <1>3, <1>4, <1>5 DEF FrameAt

\* So does the top, whose place has gone past the instance.
LEMMA TopGoesOn ==
  ASSUME files' = files, NEW c, NEW e, Grows(c, e), NEW t, FrameAt(t), t.at \in Nat,
         t.at \in 1..Len(InstancesAt(t.path)), e.inst = InstancesAt(t.path)[t.at],
         NEW f, f.module = t.module, f.path = t.path, f.at = t.at + 1
  PROVE  FrameAt(f)'
<1>1. \A n : Module(n)' = Module(n)
  BY ModulesStay
<1>2. DOMAIN tree' = DOMAIN tree \cup {c} /\ tree'[c] = e /\ \A p \in DOMAIN tree : tree'[p] = tree[p]
  BY GrownTree
<1>3. f.path \in DOMAIN tree /\ tree[f.path].inst.module = f.module
  BY DEF FrameAt
<1>4. InstancesAt(f.path)' = InstancesAt(f.path)
  BY <1>1, <1>2, <1>3 DEF InstancesAt
<1>5. ASSUME NEW d \in DOMAIN tree', d # <<>>, tree'[d].parent = f.path
      PROVE  \E j \in 1..Len(InstancesAt(f.path)) : j < f.at /\ tree'[d].inst = InstancesAt(f.path)[j]
  <2>1. CASE d \in DOMAIN tree
    <3>1. tree'[d] = tree[d]
      BY <1>2, <2>1
    <3>2. PICK j \in 1..Len(InstancesAt(t.path)) : j < t.at /\ tree[d].inst = InstancesAt(t.path)[j]
      BY <1>5, <2>1, <3>1 DEF FrameAt
    <3> QED
      BY <3>1, <3>2
  <2>2. CASE d = c
    BY <1>2, <2>2
  <2> QED
    BY <1>2, <2>1, <2>2
<1> QED
  BY <1>2, <1>3, <1>4, <1>5 DEF FrameAt

\* And the new frame is at its instance, none of whose children is there.
LEMMA NewFrame ==
  ASSUME files' = files, NEW c, NEW e, Grows(c, e), e.parent \in DOMAIN tree,
         \A p \in DOMAIN tree : ElaboratedAt(p),
         NEW f, f.module = e.inst.module, f.path = c
  PROVE  FrameAt(f)'
<1>1. /\ DOMAIN tree' = DOMAIN tree \cup {c} /\ tree'[c] = e
      /\ \A p \in DOMAIN tree : tree'[p] = tree[p] /\ p # c
  BY GrownTree
<1>2. ASSUME NEW d \in DOMAIN tree', d # <<>>, tree'[d].parent = c PROVE FALSE
  <2>1. CASE d = c
    BY <1>1, <1>2, <2>1
  <2>2. CASE d \in DOMAIN tree
    <3>1. tree[d].parent \in DOMAIN tree
      BY <1>2, <2>2 DEF ElaboratedAt, StandsIn
    <3> QED
      BY <1>1, <1>2, <2>2, <3>1
  <2> QED
    BY <1>1, <2>1, <2>2
<1> QED
  BY <1>1, <1>2 DEF FrameAt

\* What was there is, and what is missing is ahead of a frame.
LEMMA StillDue ==
  ASSUME files' = files, NEW c, NEW e, Grows(c, e), NEW n, NEW fs, Entering(fs, n, c),
         Len(frames) \in Nat \ {0}, NEW t, t = frames[Len(frames)], t.at \in Nat,
         e.inst = InstancesAt(t.path)[t.at], c = Append(t.path, e.inst.name),
         NEW p \in DOMAIN tree, NEW j \in 1..Len(InstancesAt(p)), Due(frames, p, j), frames' = fs
  PROVE  Due(frames, p, j)'
<1> DEFINE L == Len(frames)
<1>1. \A m : Module(m)' = Module(m)
  BY ModulesStay
<1>2. DOMAIN tree' = DOMAIN tree \cup {c} /\ tree'[c] = e /\ \A d \in DOMAIN tree : tree'[d] = tree[d]
  BY GrownTree
<1>3. InstancesAt(p)' = InstancesAt(p)
  BY <1>1, <1>2 DEF InstancesAt
<1>4. CASE HasChild(p, j)
  <2>1. HasChild(p, j)'
    BY <1>2, <1>3, <1>4 DEF HasChild
  <2> QED
    BY <2>1 DEF Due
<1>5. ASSUME NEW k \in 1..L, frames[k].path = p, ~(j < frames[k].at) PROVE Due(frames, p, j)'
  <2>1. CASE k < L
    <3>1. k \in 1..Len(fs) /\ fs[k] = frames[k]
      BY <2>1 DEF Entering
    <3> QED
      BY <1>5, <3>1 DEF Due
  <2>2. CASE k = L /\ j = t.at
    <3>1. HasChild(p, j)'
      BY <1>2, <1>3, <1>5, <2>2 DEF HasChild
    <3> QED
      BY <3>1 DEF Due
  <2>3. CASE k = L /\ j # t.at
    <3>1. L \in 1..Len(fs) /\ fs[L].path = p /\ fs[L].at = t.at + 1
      BY <1>5, <2>3 DEF Entering
    <3>2. ~(j < t.at + 1)
      BY <1>5, <2>3
    <3> QED
      BY <3>1, <3>2 DEF Due
  <2> QED
    BY <2>1, <2>2, <2>3
<1> QED
  BY <1>4, <1>5 DEF Due

\* An instance that is elaborated is what validation let pass.
LEMMA StandsAsValidated ==
  ASSUME files' = files, NEW c, NEW e, Grows(c, e), ChecksInv, Compiled \subseteq validated,
         NEW t, FrameAt(t), t.module \in Compiled, t.at \in 1..Len(InstancesAt(t.path)),
         IsSequence(t.path), e.inst = InstancesAt(t.path)[t.at], e.inst.module \in Compiled,
         c = Append(t.path, e.inst.name), e.parent = t.path, HasAll(e.params),
         e.params = Values(Module(e.inst.module), e.inst, tree[t.path].params),
         ~Refuses(Module(e.inst.module), e.inst, e.params)
  PROVE  ElaboratedAt(c)'
<1>1. Compiled' = Compiled /\ \A n : Module(n)' = Module(n)
  BY ModulesStay
<1>2. DOMAIN tree' = DOMAIN tree \cup {c} /\ tree'[c] = e /\ \A d \in DOMAIN tree : tree'[d] = tree[d]
  BY GrownTree
<1>3. t.path \in DOMAIN tree /\ tree[t.path].inst.module = t.module
  BY DEF FrameAt
<1>4. InstancesAt(t.path) = Module(t.module).instances
  BY <1>3 DEF InstancesAt
<1>5. Passes(Module(e.inst.module)) /\ FitsAt(t.module, t.at)
  BY <1>4 DEF ChecksInv, Sound
<1>6. Fits(Module(t.module), e.inst, Module(e.inst.module))
  BY <1>4, <1>5 DEF FitsAt
<1>7. tree'[t.path] = tree[t.path]
  BY <1>2, <1>3
<1>8. StandsIn(c)'
  <2>1. \E j \in 1..Len(Module(t.module).instances) : e.inst = Module(t.module).instances[j]
    BY <1>4
  <2>2. Module(t.module)' = Module(t.module) /\ Module(e.inst.module)' = Module(e.inst.module)
    BY <1>1
  <2>3. /\ tree'[c] = e /\ t.path \in DOMAIN tree'
        /\ tree'[t.path].inst.module = t.module /\ tree'[t.path].params = tree[t.path].params
    BY <1>2, <1>3, <1>7
  <2>4. (tree[c].inst = e.inst /\ tree[c].parent = t.path /\ tree[c].params = e.params)'
    BY <2>3
  <2>5. (Module(tree[tree[c].parent].inst.module))' = Module(t.module)
    BY <2>2, <2>3, <2>4
  <2>6. (Module(tree[c].inst.module))' = Module(e.inst.module)
    BY <2>2, <2>4
  <2>7. (tree[tree[c].parent].params)' = tree[t.path].params
    BY <2>3, <2>4
  <2> QED
    BY <1>6, <2>1, <2>3, <2>4, <2>5, <2>6, <2>7 DEF StandsIn
<1>9. IsSequence(c)
  BY Appending
<1> QED
  BY <1>1, <1>2, <1>5, <1>8, <1>9 DEF ElaboratedAt

\* Elaborating an instance keeps the hierarchy.
LEMMA InstanceElaborated ==
  ASSUME CompilerInv, ChecksInv, TreeInv, ElaborateInstance,
         \A m : Passes(m) => NamedApart(m)
  PROVE  TreeInv'
<1>1. PICK L, t, q, inst, n, c, v, e, adv :
        /\ L = Len(frames) /\ t = Top /\ q = Top.path
        /\ inst = Module(Top.module).instances[Top.at] /\ n = inst.module
        /\ c = Append(q, inst.name) /\ v = Values(Module(n), inst, tree[q].params)
        /\ e = Elaboration(inst, q, v) /\ adv = Advanced
  OBVIOUS
<1>2. /\ L \in Nat \ {0} /\ t = frames[L] /\ FrameAt(t) /\ t.path = q
      /\ t.at \in 1..Len(InstancesAt(q)) /\ InstancesAt(q) = Module(t.module).instances
      /\ q \in DOMAIN tree /\ IsSequence(q) /\ inst = Inst /\ inst = InstancesAt(q)[t.at]
      /\ n \in Compiled /\ ~OnStack(n) /\ c \notin DOMAIN tree
  BY <1>1, ElaboratesAhead
<1>3. /\ status = "elaborating" /\ frames # <<>>
      /\ Stacked(frames) /\ Compiled \subseteq validated
      /\ Growing(frames) /\ \A p \in DOMAIN tree : ElaboratedAt(p)
  BY DEF ElaborateInstance, CompilerInv, TreeInv
<1>4. e.inst = inst /\ e.parent = q /\ e.params = v
  BY <1>1 DEF Elaboration
<1>5. \/ (Become("parameter") \/ Become("frozen")) /\ UNCHANGED <<frames, tree>>
      \/ /\ HasAll(v) /\ ~Refuses(Module(n), inst, v) /\ UNCHANGED loading
         /\ frames' = Append(adv, Frame(n, c))
         /\ tree' = [p \in DOMAIN tree \cup {c} |-> IF p = c THEN e ELSE tree[p]]
  <2>1. Elaborate(inst)
    BY <1>2, Zenon DEF ElaborateInstance
  <2>2. PathOf(inst.name) = c
    BY <1>1 DEF PathOf
  <2> QED
    BY <1>1, <1>2, <2>1, <2>2, Zenon DEF Elaborate
<1>6. CASE (Become("parameter") \/ Become("frozen")) /\ UNCHANGED <<frames, tree>>
  <2>1. files' = files /\ tree' = tree /\ status' \in {"parameter", "frozen"}
    BY <1>6 DEF Become
  <2>2. (\A p \in DOMAIN tree : ElaboratedAt(p))'
    BY <1>3, <2>1, ElaboratedStays
  <2> QED
    BY <2>1, <2>2 DEF TreeInv, HierarchyWhole
<1>7. CASE /\ HasAll(v) /\ ~Refuses(Module(n), inst, v) /\ UNCHANGED loading
           /\ frames' = Append(adv, Frame(n, c))
           /\ tree' = [p \in DOMAIN tree \cup {c} |-> IF p = c THEN e ELSE tree[p]]
  <2>1. files' = files /\ status' = status /\ Grows(c, e)
    BY <1>2, <1>7 DEF loading, Grows
  <2>2. DOMAIN tree' = DOMAIN tree \cup {c} /\ \A p \in DOMAIN tree : tree'[p] = tree[p] /\ p # c
    BY <2>1, GrownTree
  <2>3. PICK fs : fs = Append(adv, Frame(n, c))
    OBVIOUS
  <2>4. Entering(fs, n, c)
    BY <1>1, <1>3, <2>3, EntersInstance
  <2>5. t.module \in Compiled /\ t.at \in Nat
    <3>1. L = Len(frames) /\ L \in 1..L
      BY <1>1, <1>2
    <3>2. IsFrame(frames[L])
      BY <1>3, <3>1 DEF Stacked
    <3> QED
      BY <1>2, <3>2 DEF IsFrame
  <2>6. ElaboratedAt(c)'
    BY <1>1, <1>2, <1>3, <1>4, <1>7, <2>1, <2>5, StandsAsValidated
  <2>7. ASSUME NEW p \in DOMAIN tree' PROVE ElaboratedAt(p)'
    <3>1. CASE p = c
      BY <2>6, <3>1
    <3>2. CASE p \in DOMAIN tree
      BY <1>3, <2>1, <3>2, StandsStill
    <3> QED
      BY <2>2, <3>1, <3>2
  <2>8. ASSUME NEW k \in 1..Len(fs) PROVE FrameAt(fs[k])'
    <3>1. CASE k \in 1..L /\ k < L
      <4>1. fs[k] = frames[k] /\ FrameAt(frames[k])
        BY <1>1, <1>3, <2>4, <3>1 DEF Entering, Growing
      <4>2. frames[k].path # q
        <5>1. L = Len(frames) /\ L \in 1..L /\ frames[L].path = q
          BY <1>1, <1>2
        <5>2. PathsApart(frames)
          BY <1>3 DEF Growing
        <5>3. k # L
          BY <1>2, <3>1
        <5> QED
          BY <3>1, <5>1, <5>2, <5>3 DEF PathsApart
      <4>3. PICK f : f = frames[k]
        OBVIOUS
      <4>4. FrameAt(f)'
        BY <1>4, <2>1, <4>1, <4>2, <4>3, FrameStays
      <4> QED
        BY <4>1, <4>3, <4>4
    <3>2. CASE k = L
      <4>1. PICK f : f = fs[L]
        OBVIOUS
      <4>2. f.module = t.module /\ f.path = t.path /\ f.at = t.at + 1
        BY <1>1, <1>2, <2>4, <4>1 DEF Entering
      <4>3. FrameAt(f)'
        BY <1>2, <1>4, <2>1, <2>5, <4>2, TopGoesOn
      <4> QED
        BY <3>2, <4>1, <4>3
    <3>3. CASE k = L + 1
      <4>1. PICK f : f = fs[L + 1]
        OBVIOUS
      <4>2. f.module = e.inst.module /\ f.path = c
        BY <1>1, <1>4, <2>4, <4>1 DEF Entering
      <4>3. FrameAt(f)'
        BY <1>2, <1>3, <1>4, <2>1, <4>2, NewFrame
      <4> QED
        BY <3>3, <4>1, <4>3
    <3> QED
      BY <1>1, <2>4, <3>1, <3>2, <3>3 DEF Entering
  <2>9. PathsApart(fs)
    <3>1. ASSUME NEW k \in 1..Len(fs)
          PROVE  \/ k \in 1..L /\ fs[k].path = frames[k].path /\ frames[k].path # c
                 \/ k = L + 1 /\ fs[k].path = c
      <4>1. k \in 1..L => frames[k].path \in DOMAIN tree
        BY <1>1, <1>3 DEF Growing, FrameAt
      <4>2. L \in 1..L
        BY <1>2
      <4>3. \/ k \in 1..L /\ fs[k].path = frames[k].path
            \/ k = L + 1 /\ fs[k].path = c
        BY <1>1, <2>4, <4>2 DEF Entering
      <4> QED
        BY <1>2, <4>1, <4>3
    <3>2. \A i, k \in 1..L : frames[i].path = frames[k].path => i = k
      BY <1>1, <1>3 DEF Growing, PathsApart
    <3> QED
      BY <3>1, <3>2 DEF PathsApart
  <2>10. ASSUME NEW p \in DOMAIN tree', NEW j \in 1..Len(InstancesAt(p)') PROVE Due(frames, p, j)'
    <3>1. CASE p = c
      <4>1. L + 1 \in 1..Len(fs) /\ fs[L + 1].path = c /\ ~(j < fs[L + 1].at)
        <5>1. Len(fs) = L + 1 /\ fs[L + 1].path = c /\ fs[L + 1].at = 1
          BY <1>1, <2>4 DEF Entering
        <5>2. L \in Nat
          BY <1>2
        <5> QED
          BY <5>1, <5>2
      <4> QED
        BY <1>7, <2>3, <3>1, <4>1 DEF Due
    <3>2. CASE p \in DOMAIN tree
      <4>1. InstancesAt(p)' = InstancesAt(p)
        BY <2>1, <2>2, <3>2, ModulesStay DEF InstancesAt
      <4>2. Due(frames, p, j)
        BY <1>3, <3>2, <4>1 DEF Growing
      <4>3. frames' = fs
        BY <1>7, <2>3
      <4> QED
        BY <1>1, <1>2, <1>4, <2>1, <2>4, <2>5, <3>2, <4>1, <4>2, <4>3, StillDue
    <3> QED
      BY <2>2, <3>1, <3>2
  <2>11. Growing(frames)'
    <3>1. frames' = fs
      BY <1>7, <2>3
    <3>2. \A k \in 1..Len(frames') : FrameAt(frames[k])'
      BY <2>8, <3>1 DEF FrameAt
    <3>3. PathsApart(frames)'
      BY <2>9, <3>1 DEF PathsApart
    <3> QED
      BY <2>10, <3>2, <3>3 DEF Growing
  <2> QED
    BY <1>3, <2>1, <2>7, <2>11 DEF TreeInv, HierarchyWhole
<1> QED
  BY <1>5, <1>6, <1>7

\* An instance is left when nothing is ahead of its frame.
LEMMA InstanceLeft == ASSUME CompilerInv, TreeInv, LeaveInstance PROVE TreeInv'
<1>1. PICK L, fs : L = Len(frames) /\ fs = Below
  OBVIOUS
<1>2. /\ status = "elaborating" /\ frames # <<>> /\ ~Ahead /\ frames' = fs
      /\ files' = files /\ tree' = tree /\ status' = status
  BY <1>1 DEF LeaveInstance, loading
<1>3. LoadInv /\ FilesKept /\ Stacked(frames) /\ Growing(frames) /\ \A p \in DOMAIN tree : ElaboratedAt(p)
  BY <1>2 DEF CompilerInv, TreeInv
<1>4. /\ L \in Nat \ {0} /\ L \in 1..L /\ Len(fs) = L - 1
      /\ \A k \in 1..Len(fs) : fs[k] = frames[k] /\ k \in 1..L
  BY <1>1, <1>2, <1>3, Popping
<1>5. IsFrame(frames[L]) /\ FrameAt(frames[L])
  BY <1>1, <1>3, <1>4 DEF Stacked, Growing
<1>6. ASSUME NEW j \in 1..Len(InstancesAt(frames[L].path)) PROVE j < frames[L].at
  <2>1. InstancesAt(frames[L].path) = Module(frames[L].module).instances
    BY <1>5 DEF FrameAt, InstancesAt
  <2>2. Len(Module(frames[L].module).instances) \in Nat /\ frames[L].at \in Nat
    BY <1>3, <1>5, ModuleOfName DEF IsFrame
  <2>3. ~(frames[L].at <= Len(Module(frames[L].module).instances))
    BY <1>1, <1>2 DEF Ahead, Top
  <2> QED
    BY <2>1, <2>2, <2>3
<1>7. \A k \in 1..Len(fs) : FrameAt(fs[k])
  BY <1>1, <1>3, <1>4 DEF Growing
<1>8. PathsApart(fs)
  <2>1. PathsApart(frames)
    BY <1>3 DEF Growing
  <2> QED
    BY <1>1, <1>4, <2>1 DEF PathsApart
<1>9. ASSUME NEW p \in DOMAIN tree, NEW j \in 1..Len(InstancesAt(p)) PROVE Due(fs, p, j)
  <2>1. Due(frames, p, j)
    BY <1>3 DEF Growing
  <2>2. ASSUME NEW k \in 1..L, frames[k].path = p, ~(j < frames[k].at) PROVE Due(fs, p, j)
    <3>1. k # L
      BY <1>6, <2>2
    <3>2. k \in 1..Len(fs)
      BY <1>4, <3>1
    <3> QED
      BY <1>4, <2>2, <3>2 DEF Due
  <2> QED
    BY <1>1, <2>1, <2>2 DEF Due
<1>10. Growing(fs)
  BY <1>7, <1>8, <1>9 DEF Growing
<1>11. Growing(frames)' /\ (\A p \in DOMAIN tree : ElaboratedAt(p))'
  BY <1>2, <1>3, <1>10, GrowingStays, ElaboratedStays
<1> QED
  BY <1>2, <1>11 DEF TreeInv, HierarchyWhole

\* With the last frame nothing is missing.
LEMMA AllElaborated == ASSUME CompilerInv, TreeInv, Elaborated PROVE TreeInv'
<1>1. /\ status = "elaborating" /\ frames = <<>> /\ status' = "elaborated"
      /\ files' = files /\ tree' = tree
  BY DEF Elaborated, Become, walking
<1>2. Growing(frames) /\ \A p \in DOMAIN tree : ElaboratedAt(p)
  BY <1>1 DEF TreeInv
<1>3. Len(frames) = 0
  BY <1>1, EmptySequence, Zenon
<1>4. \A p \in DOMAIN tree : \A j \in 1..Len(InstancesAt(p)) : HasChild(p, j)
  <2> SUFFICES ASSUME NEW p \in DOMAIN tree, NEW j \in 1..Len(InstancesAt(p)) PROVE HasChild(p, j)
    OBVIOUS
  <2>1. Due(frames, p, j)
    BY <1>2 DEF Growing
  <2> QED
    BY <1>3, <2>1 DEF Due
<1>5. \A m : Module(m)' = Module(m)
  BY <1>1, ModulesStay
<1>6. HierarchyWhole'
  BY <1>1, <1>4, <1>5 DEF HierarchyWhole, HasChild, InstancesAt
<1>7. (\A p \in DOMAIN tree : ElaboratedAt(p))'
  BY <1>1, <1>2, ElaboratedStays
<1> QED
  BY <1>1, <1>6, <1>7 DEF TreeInv

\* Every step of a compilation keeps the hierarchy.
LEMMA TreeStep ==
  ASSUME \A m : Passes(m) => NamedApart(m)
  PROVE  CompilerInv /\ ChecksInv /\ TreeInv /\ [Next]_vars => TreeInv'
<1> SUFFICES ASSUME CompilerInv, ChecksInv, TreeInv, [Next]_vars PROVE TreeInv'
  OBVIOUS
<1>1. CASE StartElaboration
  BY <1>1, TopIsElaborated
<1>2. CASE ElaborateInstance
  BY <1>2, InstanceElaborated
<1>3. CASE LeaveInstance
  BY <1>3, InstanceLeft
<1>4. CASE Elaborated
  BY <1>4, AllElaborated
<1>5. CASE UNCHANGED vars
  <2>1. PICK fs : fs = frames
    OBVIOUS
  <2>2. files' = files /\ tree' = tree /\ status' = status /\ frames' = fs
    BY <1>5, <2>1 DEF vars, loading, walking
  <2>3. /\ (\A p \in DOMAIN tree : ElaboratedAt(p))'
        /\ status = "elaborating" => Growing(frames)'
    BY <2>1, <2>2, ElaboratedStays, GrowingStays DEF TreeInv
  <2>4. \A m : Module(m)' = Module(m)
    BY <2>2, ModulesStay
  <2>5. HierarchyWhole'
    BY <2>2, <2>4 DEF TreeInv, HierarchyWhole
  <2> QED
    BY <2>2, <2>3, <2>5 DEF TreeInv
<1>6. CASE \/ Load /\ UNCHANGED walking
           \/ StartValidation \/ VisitModule \/ NextFile \/ VisitInstance \/ LeaveModule \/ Validated
  <2>1. status \notin Elaborates /\ tree' = tree
    <3>1. CASE Load /\ UNCHANGED walking
      BY <3>1 DEF walking, Load, RootFails, LoadRoot, Instantiation, NextModule, LoadNext, Loaded, Elaborates
    <3>2. CASE StartValidation \/ NextFile \/ LeaveModule \/ Validated
      BY <3>2 DEF StartValidation, NextFile, LeaveModule, Validated, walking, Elaborates
    <3>3. CASE VisitModule \/ VisitInstance
      BY <3>3 DEF VisitModule, VisitInstance, Elaborates
    <3> QED
      BY <1>6, <3>1, <3>2, <3>3
  <2>2. tree' = <<>>
    BY <2>1 DEF CompilerInv
  <2>3. status' \notin {"elaborating", "elaborated"}
    <3>1. CASE Load
      BY <3>1 DEF Load, RootFails, LoadRoot, Instantiation, NextModule, LoadNext, Loaded, Stop
    <3>2. CASE StartValidation \/ Validated
      BY <3>2 DEF StartValidation, Validated, Become
    <3>3. CASE NextFile \/ LeaveModule
      BY <3>3 DEF NextFile, LeaveModule, loading
    <3>4. CASE VisitModule \/ VisitInstance
      <4>1. /\ status = "validating"
            /\ \/ UNCHANGED loading \/ Become("missing") \/ Become("invalid") \/ Become("recursive")
        BY <3>4, Zenon DEF VisitModule, VisitInstance, Enter
      <4> QED
        BY <4>1 DEF loading, Become
    <3> QED
      BY <1>6, <3>1, <3>2, <3>3, <3>4
  <2> QED
    BY <2>2, <2>3, StillNoTree
<1> QED
  BY <1>1, <1>2, <1>3, <1>4, <1>5, <1>6 DEF Next

\* The hierarchy of every compilation.
LEMMA HierarchyStands ==
  ASSUME \A m : Passes(m) => NamedApart(m)
  PROVE  Spec => [](HierarchyValidated /\ HierarchyWhole)
<1>1. CompilerInit => ChecksInv /\ TreeInv
  <2> SUFFICES ASSUME CompilerInit PROVE ChecksInv /\ TreeInv
    OBVIOUS
  <2>1. status = "start" /\ validated = {} /\ tree = <<>>
    BY DEF CompilerInit, Init
  <2> QED
    BY <2>1, NoTree DEF ChecksInv
<1>2. CompilerInv /\ ChecksInv /\ [Next]_vars => ChecksInv'
  BY ChecksStep
<1>3. CompilerInv /\ ChecksInv /\ TreeInv /\ [Next]_vars => TreeInv'
  BY TreeStep
<1>4. TreeInv => HierarchyValidated /\ HierarchyWhole
  BY DEF TreeInv, ElaboratedAt, HierarchyValidated
<1> QED
  BY <1>1, <1>2, <1>3, <1>4, CompilerStarts, CompilerSteps, PTL DEF Spec

\* What elaborate_design builds is what validate_design has let pass: every
\* instance is one of its parent's module, was let pass in it and has the values
\* its overrides yield, whatever the files are, whatever is asked of modules and
\* instances and whatever values parameters have, so long as a module that
\* passes has instances with names of their own (validate_unique_instance_names).
THEOREM OnlyValidated ==
  ASSUME \A m : Passes(m) => NamedApart(m) PROVE Spec => []HierarchyValidated
  BY HierarchyStands, PTL

\* And it leaves out no instance of any module: the hierarchy is the unfolding
\* of the modules, in which no instance has taken the place of another.
THEOREM NoneLeftOut ==
  ASSUME \A m : Passes(m) => NamedApart(m) PROVE Spec => []HierarchyWhole
  BY HierarchyStands, PTL
=============================================================================
