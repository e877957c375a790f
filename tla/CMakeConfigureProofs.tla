------------------------ MODULE CMakeConfigureProofs ------------------------
(***************************************************************************)
(* CMakeLists.txt, for any installation directories, tree and platform:    *)
(* at each section a run's outcome is a function of the cache, what is     *)
(* installed and Protobuf, and a run that has reached npcap leaves a cache *)
(* that another run with the same surroundings does not change.            *)
(***************************************************************************)
EXTENDS CMakeConfigure, TLAPS

FirstOptions == IF Windows THEN {"WIN32 definitions"} ELSE {}

LastOptions(found) ==
    FirstOptions \cup {IF Msvc THEN "/W4 /WX" ELSE "-Wall -Wextra -Werror"}
                 \cup (IF found THEN {"HAVE_NPCAP"} ELSE {})

Added(found) ==
    (IF cache.testing THEN {"tests"} ELSE {})
        \cup (IF found THEN {"tools/NetworkAnalyzer"} ELSE {})

Compiled(dirs) == (dirs \cap SourceTree) \X {FirstOptions}

\* Whether npcap's directory is there, and its libraries are in the cache.
Present == Windows /\ installed[Root] # Unset

Found == Present /\ \A l \in Libraries : cache.library[l] # Unset

Headers == IF Present THEN Root ELSE Unset

AllTargets == Compiled(Parts) \cup Compiled(Added(Found))

AllErrors == (Parts \ SourceTree) \cup (Added(Found) \ SourceTree)

Runs ==
    [headers : Roots \cup {Unset}, found : BOOLEAN,
     options : SUBSET Options,
     targets : SUBSET (SourceTree \X SUBSET Options),
     errors : SUBSET ({"Protobuf"} \cup Parts \cup Extras)]

Has(r, headers, found, options, targets, errors) ==
    /\ r \in Runs
    /\ r.headers = headers /\ r.found = found /\ r.options = options
    /\ r.targets = targets /\ r.errors = errors

\* A run r after a section, when the cache is as that section left it.
AtStart(r) == Has(r, Unset, FALSE, FirstOptions, {}, {})

AtNpcap(r) == Has(r, Headers, Found, FirstOptions, {}, {})

AtParts(r) ==
    Has(r, Headers, Found, FirstOptions, Compiled(Parts), Parts \ SourceTree)

AtExtras(r) == Has(r, Headers, Found, FirstOptions, AllTargets, AllErrors)

AtEnd(r) ==
    IF protobuf
    THEN Has(r, Headers, Found, LastOptions(Found), AllTargets, AllErrors)
    ELSE Has(r, Unset, FALSE, FirstOptions, {}, {"Protobuf"})

\* What the run has come to, from what the sections find.
Outcome ==
    /\ pc = "idle" => run = FreshRun
    /\ pc \in {"protobuf", "npcap"} => AtStart(run)
    /\ pc = "parts" => AtNpcap(run)
    /\ pc = "extras" => AtParts(run)
    /\ pc = "options" => AtExtras(run)
    /\ pc = "end" => AtEnd(run)

\* A search for npcap would leave the cache as it is.
Settled ==
    Windows => /\ cache.root # Unset
               /\ installed[Root] # Unset =>
                    \A l \in Libraries :
                        cache.library[l] = Unset => l \notin installed[Root]

\* When the cache is settled, and what the run before came to.
CacheSettled ==
    /\ pc \in {"npcap", "parts", "extras", "options"} => protobuf
    /\ pc \in {"parts", "extras", "options"} => Settled
    /\ pc = "end" /\ protobuf => Settled
    /\ previous # Unset => /\ AtEnd(previous)
                           /\ protobuf => Settled

\* The libraries in the cache are those under NPCAP_ROOT unless it moved.
UnderRoot ==
    ~moved => \A l \in Libraries : cache.library[l] \in {Unset, cache.root}

\* What every step preserves.
IInv == TypeOK /\ Outcome /\ CacheSettled /\ UnderRoot

-----------------------------------------------------------------------------
(* Lemmas on what a run comes to.                                          *)

\* NPCAP_ROOT is a directory, given or by default.
LEMMA RootInRoots == TypeOK => Root \in Roots
BY CMakeAssumption DEF CMakeAssumption, TypeOK, Root

\* While nothing around the run changes, it comes to the same.
LEMMA SameOutcome ==
    ASSUME UNCHANGED <<installed, protobuf, cache>>
    PROVE  /\ Headers' = Headers /\ Found' = Found
           /\ AllTargets' = AllTargets /\ AllErrors' = AllErrors
           /\ Settled' <=> Settled
           /\ \A r : AtEnd(r) => AtEnd(r)'
BY DEF Headers, Found, Present, Root, AllTargets, AllErrors, Added, Settled,
       AtEnd, LastOptions

\* A tree that was never configured has a cache that holds nothing.
LEMMA InitCorrect == Init => IInv
<1> SUFFICES ASSUME Init PROVE IInv
  OBVIOUS
<1>1. TypeOK
  <2>1. FreshRun \in Runs
    BY DEF FreshRun, Runs
  <2> QED
    BY <2>1 DEF Init, TypeOK, Runs
<1>2. Outcome /\ CacheSettled /\ UnderRoot
  BY DEF Init, Outcome, CacheSettled, UnderRoot
<1> QED
  BY <1>1, <1>2 DEF IInv

\* What a user does ends what is known of the run before.
LEMMA UserCorrect ==
    ASSUME IInv,
           \/ \E r \in Roots :
                SetRoot(r) \/ \E what \in Installations : Install(r, what)
           \/ \E b \in BOOLEAN : InstallProtobuf(b) \/ SetTesting(b)
    PROVE  IInv'
<1>1. /\ pc = "idle" /\ previous' = Unset /\ pc' = pc /\ run' = run
  BY DEF SetRoot, Install, InstallProtobuf, SetTesting, Touch
<1>2. TypeOK'
  <2>1. CASE \E r \in Roots, what \in Installations : Install(r, what)
    BY <1>1, <2>1 DEF IInv, TypeOK, Install
  <2>2. CASE \E r \in Roots : SetRoot(r)
    BY <1>1, <2>2 DEF IInv, TypeOK, SetRoot
  <2>3. CASE \E b \in BOOLEAN : InstallProtobuf(b) \/ SetTesting(b)
    BY <1>1, <2>3 DEF IInv, TypeOK, InstallProtobuf, SetTesting
  <2> QED
    BY <2>1, <2>2, <2>3
<1>3. Outcome'
  BY <1>1 DEF IInv, Outcome, FreshRun
<1>4. CacheSettled'
  BY <1>1 DEF CacheSettled
<1>5. UnderRoot'
  <2>1. CASE \E r \in Roots : SetRoot(r)
    <3>1. PICK r \in Roots : SetRoot(r)
      BY <2>1
    <3>2. cache'.root = r /\ cache'.library = cache.library
      BY <3>1 DEF IInv, TypeOK, SetRoot
    <3>3. ~moved' => ~moved /\ cache.root \in {r, Unset}
      BY <3>1, Zenon DEF SetRoot
    <3> QED
      BY <3>2, <3>3 DEF IInv, UnderRoot
  <2>2. CASE cache' = cache /\ moved' = moved
    BY <2>2 DEF IInv, UnderRoot
  <2>3. CASE \E b \in BOOLEAN : SetTesting(b)
    BY <2>3 DEF IInv, TypeOK, UnderRoot, SetTesting
  <2> QED
    BY <2>1, <2>2, <2>3 DEF Install, InstallProtobuf
<1> QED
  BY <1>2, <1>3, <1>4, <1>5 DEF IInv

\* A section that leaves the cache alone.
LEMMA SectionCorrect ==
    ASSUME IInv,
           \/ Settings \/ FindProtobuf \/ AddParts \/ AddExtras
           \/ GlobalOptions \/ End
    PROVE  IInv'
<1>1. UNCHANGED <<installed, protobuf, cache, moved>>
  BY DEF Settings, FindProtobuf, AddParts, AddExtras, GlobalOptions, End, Section
<1>2. run' \in Runs => TypeOK'
  BY <1>1
     DEF IInv, TypeOK, Runs, Settings, FindProtobuf, AddParts, AddExtras,
         GlobalOptions, End, Section
<1>3. UnderRoot'
  BY <1>1 DEF IInv, UnderRoot
<1>4. run \in Runs
  BY DEF IInv, TypeOK, Runs
<1>5. CASE Settings
  <2>1. run' = [FreshRun EXCEPT !.options = FirstOptions] /\ pc' = "protobuf"
    BY <1>5 DEF IInv, Outcome, Settings, Section, FirstOptions
  <2>2. AtStart(run)'
    BY <2>1 DEF AtStart, Has, Runs, FreshRun, FirstOptions, Options
  <2>3. CacheSettled'
    <3>1. previous # Unset => AtEnd(previous) /\ (protobuf => Settled)
      BY DEF IInv, CacheSettled
    <3> QED
      BY <1>1, <1>5, <2>1, <3>1, SameOutcome DEF CacheSettled, Settings
  <2> QED
    BY <1>2, <1>3, <2>1, <2>2, <2>3 DEF IInv, Outcome, AtStart, Has
<1>6. CASE FindProtobuf
  <2>1. pc = "protobuf" /\ AtStart(run)
    BY <1>6 DEF IInv, Outcome, FindProtobuf, Section
  <2>2. CASE protobuf
    <3>1. pc' = "npcap" /\ run' = [run EXCEPT !.errors = {}]
      BY <1>6, <2>2 DEF FindProtobuf, Section
    <3>2. AtStart(run)'
      BY <1>4, <2>1, <3>1 DEF AtStart, Has, Runs, FirstOptions
    <3>3. CacheSettled'
      BY <1>1, <1>6, <2>2, <3>1, SameOutcome
         DEF IInv, CacheSettled, FindProtobuf, Section
    <3> QED
      BY <1>2, <1>3, <3>1, <3>2, <3>3 DEF IInv, Outcome, AtStart, Has
  <2>3. CASE ~protobuf
    <3>1. pc' = "end" /\ run' = [run EXCEPT !.errors = {"Protobuf"}]
      BY <1>6, <2>3 DEF FindProtobuf, Section
    <3>2. AtEnd(run)' /\ run' \in Runs
      BY <1>1, <1>4, <2>1, <2>3, <3>1 DEF AtStart, AtEnd, Has, Runs, FirstOptions
    <3>3. CacheSettled'
      BY <1>1, <1>6, <2>3, <3>1, SameOutcome
         DEF IInv, CacheSettled, FindProtobuf, Section
    <3> QED
      BY <1>2, <1>3, <3>1, <3>2, <3>3 DEF IInv, Outcome
  <2> QED
    BY <2>2, <2>3
<1>7. CASE AddParts
  <2>1. pc = "parts" /\ pc' = "extras" /\ AtNpcap(run)
    BY <1>7 DEF IInv, Outcome, AddParts, Section
  <2>2. run' = [run EXCEPT
                  !.targets = @ \cup ((Parts \cap SourceTree) \X {run.options}),
                  !.errors = @ \cup (Parts \ SourceTree)]
    BY <1>7 DEF AddParts, AddSubdirectories
  <2>3. /\ Compiled(Parts) \in SUBSET (SourceTree \X SUBSET Options)
        /\ Compiled(Parts)' = Compiled(Parts)
    BY DEF Compiled, FirstOptions, Options
  <2>4. Has(run', Headers, Found, FirstOptions, Compiled(Parts),
            Parts \ SourceTree)
    BY <1>4, <2>1, <2>2, <2>3 DEF AtNpcap, Has, Runs, Compiled
  <2>5. AtParts(run)'
    BY <1>1, <2>3, <2>4, SameOutcome DEF AtParts, FirstOptions
  <2>6. CacheSettled'
    BY <1>1, <1>7, SameOutcome DEF IInv, CacheSettled, AddParts, Section
  <2> QED
    BY <1>2, <1>3, <2>1, <2>4, <2>5, <2>6 DEF IInv, Outcome, Has
<1>8. CASE AddExtras
  <2>1. pc = "extras" /\ pc' = "options" /\ AtParts(run)
    BY <1>8 DEF IInv, Outcome, AddExtras, Section
  <2>2. run.found = Found /\ run.options = FirstOptions
    BY <2>1 DEF AtParts, Has
  <2>3. run' = [run EXCEPT
                  !.targets = @ \cup ((Added(Found) \cap SourceTree) \X {run.options}),
                  !.errors = @ \cup (Added(Found) \ SourceTree)]
    BY <1>8, <2>2 DEF AddExtras, AddSubdirectories, Added
  <2>4. /\ Compiled(Added(Found)) \in SUBSET (SourceTree \X SUBSET Options)
        /\ Added(Found) \in SUBSET Extras
    BY DEF Compiled, FirstOptions, Options, Added, Extras
  <2>5. Has(run', Headers, Found, FirstOptions, AllTargets, AllErrors)
    BY <1>4, <2>1, <2>2, <2>3, <2>4
       DEF AtParts, Has, Runs, Compiled, AllTargets, AllErrors
  <2>6. AtExtras(run)'
    BY <1>1, <2>5, SameOutcome DEF AtExtras, FirstOptions
  <2>7. CacheSettled'
    BY <1>1, <1>8, SameOutcome DEF IInv, CacheSettled, AddExtras, Section
  <2> QED
    BY <1>2, <1>3, <2>1, <2>5, <2>6, <2>7 DEF IInv, Outcome, Has
<1>9. CASE GlobalOptions
  <2>1. pc = "options" /\ pc' = "end" /\ AtExtras(run) /\ protobuf
    BY <1>9 DEF IInv, Outcome, CacheSettled, GlobalOptions, Section
  <2>2. run.found = Found /\ run.options = FirstOptions
    BY <2>1 DEF AtExtras, Has
  <2>3. run' = [run EXCEPT !.options = LastOptions(Found)]
    BY <1>9, <2>2 DEF GlobalOptions, LastOptions
  <2>4. LastOptions(Found) \in SUBSET Options
    BY DEF LastOptions, FirstOptions, Options
  <2>5. Has(run', Headers, Found, LastOptions(Found), AllTargets, AllErrors)
    BY <1>4, <2>1, <2>3, <2>4 DEF AtExtras, Has, Runs
  <2>6. AtEnd(run')
    BY <2>1, <2>5 DEF AtEnd
  <2>7. AtEnd(run)'
    BY <1>1, <2>1, <2>5, SameOutcome DEF AtEnd, LastOptions, FirstOptions
  <2>8. CacheSettled'
    BY <1>1, <1>9, SameOutcome DEF IInv, CacheSettled, GlobalOptions, Section
  <2> QED
    BY <1>2, <1>3, <2>1, <2>5, <2>7, <2>8 DEF IInv, Outcome, Has
<1>10. CASE End
  <2>1. /\ pc = "end" /\ pc' = "idle" /\ run' = FreshRun /\ previous' = run
        /\ AtEnd(run)
    BY <1>10 DEF IInv, Outcome, End, Section
  <2>2. FreshRun \in Runs
    BY DEF FreshRun, Runs
  <2>3. AtEnd(previous)'
    BY <1>1, <2>1, SameOutcome DEF AtEnd, LastOptions, FirstOptions
  <2>4. CacheSettled'
    BY <1>1, <2>1, <2>3, SameOutcome DEF IInv, CacheSettled
  <2> QED
    BY <1>2, <1>3, <2>1, <2>2, <2>4 DEF IInv, Outcome
<1> QED
  BY <1>5, <1>6, <1>7, <1>8, <1>9, <1>10

\* The section on npcap settles the cache, and leaves a settled one alone.
LEMMA FindNpcapCorrect ==
    ASSUME IInv, FindNpcap
    PROVE  IInv'
<1>1. /\ pc = "npcap" /\ pc' = "parts" /\ AtStart(run) /\ protobuf
      /\ UNCHANGED <<installed, protobuf, moved, previous>>
  BY DEF IInv, Outcome, CacheSettled, FindNpcap, Section
<1>2. Root \in Roots /\ Root # Unset
  BY RootInRoots, CMakeAssumption DEF IInv, CMakeAssumption
<1>3. \A l \in Libraries : FindLibrary(l) \in Roots \cup {Unset}
  BY <1>2 DEF IInv, TypeOK, FindLibrary
<1>4. /\ cache' \in [root : Roots \cup {Unset},
                     library : [Libraries -> Roots \cup {Unset}],
                     testing : BOOLEAN]
      /\ cache'.root = IF Windows THEN Root ELSE cache.root
      /\ cache'.testing = cache.testing
      /\ \A l \in Libraries :
            cache'.library[l] = IF Present THEN FindLibrary(l)
                                ELSE cache.library[l]
  <2>1. CASE Present
    <3>1. cache' = [cache EXCEPT !.root = Root,
                                 !.library = [l \in Libraries |-> FindLibrary(l)]]
      BY <2>1 DEF FindNpcap, Present
    <3> QED
      BY <1>2, <1>3, <2>1, <3>1 DEF IInv, TypeOK, Present
  <2>2. CASE ~Present
    <3>1. cache' = [cache EXCEPT !.root = IF Windows THEN Root ELSE cache.root]
      BY <2>2 DEF FindNpcap, Present
    <3> QED
      BY <1>2, <2>2, <3>1 DEF IInv, TypeOK
  <2> QED
    BY <2>1, <2>2
<1>5. Root' = Root
  BY <1>2, <1>4 DEF Root, IInv
<1>6. Settled'
  BY <1>1, <1>2, <1>4, <1>5 DEF Settled, FindLibrary, Present
<1>7. AtNpcap(run)'
  <2>1. Headers' = Headers /\ (Present' <=> Present)
    BY <1>1, <1>5 DEF Headers, Present
  <2>2. CASE Present
    <3>1. run' = [run EXCEPT
                    !.headers = Root,
                    !.found = \A l \in Libraries :
                      [k \in Libraries |-> FindLibrary(k)][l] # Unset]
      BY <2>2 DEF FindNpcap, Present
    <3>2. Found' = \A l \in Libraries :
                       [k \in Libraries |-> FindLibrary(k)][l] # Unset
      BY <1>4, <2>1, <2>2 DEF Found
    <3>3. Found' \in BOOLEAN
      BY DEF Found
    <3>4. run' = [run EXCEPT !.headers = Root, !.found = Found']
      BY <3>1, <3>2, Zenon
    <3>5. /\ run' \in Runs /\ run'.headers = Root /\ run'.found = Found'
          /\ run'.options = run.options /\ run'.targets = run.targets
          /\ run'.errors = run.errors
      BY <1>1, <1>2, <3>3, <3>4 DEF AtStart, Has, Runs
    <3> QED
      BY <1>1, <2>1, <2>2, <3>5
         DEF AtStart, AtNpcap, Has, Headers, FirstOptions
  <2>3. CASE ~Present
    <3>1. run' = run /\ Found' = FALSE
      BY <2>1, <2>3 DEF FindNpcap, Present, Found
    <3> QED
      BY <1>1, <2>1, <2>3, <3>1 DEF AtStart, AtNpcap, Has, Headers, FirstOptions
  <2> QED
    BY <2>2, <2>3
<1>8. CacheSettled'
  <2>1. ASSUME previous # Unset PROVE cache' = cache
    <3>1. Settled
      BY <1>1, <2>1 DEF IInv, CacheSettled
    <3>2. \A l \in Libraries : Present => FindLibrary(l) = cache.library[l]
      BY <3>1 DEF Settled, FindLibrary, Present
    <3>3. cache'.root = cache.root
      BY <1>4, <3>1 DEF Settled, Root
    <3> QED
      BY <1>4, <3>2, <3>3 DEF IInv, TypeOK
  <2>2. previous # Unset => AtEnd(previous)'
    <3> SUFFICES ASSUME previous # Unset PROVE AtEnd(previous)'
      OBVIOUS
    <3>1. AtEnd(previous) /\ UNCHANGED <<installed, protobuf, cache, previous>>
      BY <1>1, <2>1 DEF IInv, CacheSettled
    <3> QED
      BY <3>1, SameOutcome DEF AtEnd, LastOptions, FirstOptions
  <2> QED
    BY <1>1, <1>6, <2>2 DEF IInv, CacheSettled
<1>9. UnderRoot'
  <2>1. ASSUME ~moved, NEW l \in Libraries
        PROVE  cache'.library[l] \in {Unset, cache'.root}
    <3>1. cache.library[l] \in {Unset, cache.root}
      BY <2>1 DEF IInv, UnderRoot
    <3>2. cache.root # Unset => Root = cache.root
      BY DEF Root
    <3> QED
      BY <1>2, <1>4, <3>1, <3>2 DEF FindLibrary, Present
  <2> QED
    BY <1>1, <2>1 DEF UnderRoot
<1>10. run' \in Runs
  BY <1>7 DEF AtNpcap, Has
<1>11. TypeOK'
  BY <1>1, <1>4, <1>10 DEF IInv, TypeOK, Runs
<1>12. Outcome'
  BY <1>1, <1>7 DEF Outcome
<1> QED
  BY <1>8, <1>9, <1>11, <1>12 DEF IInv

\* Every step of a build tree, and none, keeps the invariant.
LEMMA StepCorrect == IInv /\ [Next]_vars => IInv'
<1> SUFFICES ASSUME IInv, [Next]_vars PROVE IInv'
  OBVIOUS
<1>1. CASE UNCHANGED vars
  <2>1. /\ UNCHANGED <<installed, protobuf, cache, pc, run, previous, moved>>
    BY <1>1 DEF vars
  <2>2. TypeOK' /\ UnderRoot'
    BY <2>1 DEF IInv, TypeOK, UnderRoot
  <2>3. CacheSettled'
    BY <2>1, SameOutcome DEF IInv, CacheSettled
  <2>4. Outcome'
    BY <2>1, SameOutcome
       DEF IInv, Outcome, AtStart, AtNpcap, AtParts, AtExtras, AtEnd,
           FirstOptions, LastOptions, Compiled
  <2> QED
    BY <2>2, <2>3, <2>4 DEF IInv
<1> QED
  BY <1>1, UserCorrect, SectionCorrect, FindNpcapCorrect DEF Next

\* So it holds always.
LEMMA Invariance == Spec => []IInv
BY InitCorrect, StepCorrect, PTL DEF Spec

-----------------------------------------------------------------------------
(* The theorems.                                                           *)

\* Every variable keeps its type.
THEOREM TypeCorrect == Spec => []TypeOK
<1>1. IInv => TypeOK
  BY DEF IInv
<1> QED
  BY <1>1, Invariance, PTL

\* A second run with nothing touched in between ends as the first did.
THEOREM RerunEndsSame == Spec => []RerunIsSame
<1>1. ASSUME IInv, pc = "end", previous # Unset PROVE run = previous
  <2>1. AtEnd(run) /\ AtEnd(previous)
    BY <1>1 DEF IInv, Outcome, CacheSettled
  <2> QED
    BY <2>1 DEF AtEnd, Has, Runs
<1>2. IInv => RerunIsSame
  BY <1>1 DEF RerunIsSame
<1> QED
  BY <1>2, Invariance, PTL

\* An npcap that is complete under NPCAP_ROOT is found, in a tree however old.
THEOREM CompleteIsFound == Spec => []InstalledIsFound
<1>1. ASSUME IInv, pc = "extras", Windows, installed[Root] = Libraries
      PROVE  run.found
  <2>1. Settled /\ run.found = Found
    BY <1>1 DEF IInv, Outcome, CacheSettled, AtParts, Has
  <2>2. Libraries # Unset
    BY CMakeAssumption DEF CMakeAssumption, Libraries
  <2>3. Found
    BY <1>1, <2>1, <2>2 DEF Settled, Found, Present
  <2> QED
    BY <2>1, <2>3
<1>2. IInv => InstalledIsFound
  BY <1>1 DEF InstalledIsFound
<1> QED
  BY <1>2, Invariance, PTL

\* Headers and libraries are of one installation while NPCAP_ROOT stays.
THEOREM OneInstallationFound == Spec => []OneInstallationUnlessMoved
<1>1. ASSUME IInv, ~moved, run.found, NEW l \in Libraries
      PROVE  cache.library[l] = run.headers
  <2>1. run.headers = Headers /\ run.found = Found /\ Settled
    <3>1. CASE pc \in {"idle", "protobuf", "npcap"}
      BY <1>1, <3>1 DEF IInv, Outcome, FreshRun, AtStart, Has
    <3>2. CASE pc \in {"parts", "extras", "options"}
      BY <3>2, <1>1
         DEF IInv, Outcome, CacheSettled, AtNpcap, AtParts, AtExtras, Has
    <3>3. CASE pc = "end"
      BY <3>3, <1>1 DEF IInv, Outcome, CacheSettled, AtEnd, Has
    <3> QED
      BY <1>1, <3>1, <3>2, <3>3 DEF IInv, TypeOK
  <2>2. Found /\ run.headers = Root /\ Root = cache.root
    BY <1>1, <2>1 DEF Found, Present, Headers, Settled, Root
  <2> QED
    BY <1>1, <2>2 DEF IInv, UnderRoot, Found
<1>2. IInv => OneInstallationUnlessMoved
  BY <1>1 DEF OneInstallationUnlessMoved, OneInstallation
<1> QED
  BY <1>2, Invariance, PTL

=============================================================================
