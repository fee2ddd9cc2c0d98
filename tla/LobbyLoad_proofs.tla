--------------------------- MODULE LobbyLoad_proofs ---------------------------
(***************************************************************************)
(* The tables that asked the cap fit under it, and what is reserved for    *)
(* creates and for a hot restore is given back, for any number of tables,  *)
(* any weights and any cap.                                                *)
(*                                                                         *)
(* The load is a sum over a set of tables.  The prover has no induction    *)
(* over a predicate, but a set of sets of tables that is not empty has a   *)
(* smallest member, so what is proved of every set of tables is proved of  *)
(* the smallest one that it does not hold of.                              *)
(***************************************************************************)
EXTENDS LobbyTables_proofs, FiniteSetTheorems, WellFoundedInduction

(* What a property of sets does not hold of, it does not hold of a smallest *)
(* one: every set of subsets of the tables has a minimal member.           *)
LEMMA Smallest ==
    ASSUME NEW Sets, Sets \subseteq SUBSET Tables, Sets # {}
    PROVE  \E S \in Sets : \A T \in Sets : T \subseteq S => T = S
<1>1. IsWellFoundedOn(StrictSubsetOrdering(Tables), FiniteSubsetsOf(Tables))
  BY FS_StrictSubsetOrderingWellFounded
<1>2. FiniteSubsetsOf(Tables) = SUBSET Tables
  BY FS_FiniteSubsetsOfFinite, TablesAssumption
<1>3. PICK S \in Sets : \A T \in Sets : <<T, S>> \notin StrictSubsetOrdering(Tables)
  BY <1>1, <1>2, WFMin
<1>4. ASSUME NEW T \in Sets, T \subseteq S, T # S
      PROVE  FALSE
  <2>1. <<T, S>> \in StrictSubsetOrdering(Tables)
    BY <1>4 DEF StrictSubsetOrdering
  <2> QED BY <1>3, <2>1
<1> QED BY <1>4

(* The sum of a set of tables, and of its subsets, as Cost adds them up:   *)
(* the element chosen first, then the rest.                                *)
First(S) == CHOOSE t \in S : TRUE
Rest(S) == S \ {First(S)}
Adds(f, S) == f = [T \in SUBSET S |-> IF T = {} THEN 0 ELSE Weight[First(T)] + f[Rest(T)]]
Sum(S) == (CHOOSE f : Adds(f, S))[S]

(* What CHOOSE picks of a set is in it.                                    *)
LEMMA FirstOf == ASSUME NEW S, S # {}
                 PROVE  First(S) \in S /\ Rest(S) \subseteq S /\ Rest(S) # S
BY DEF First, Rest

(* Cost is the sum of the library, written out.                            *)
LEMMA CostIsSum == \A S : Cost(S) = Sum(S)
BY DEF Cost, MapThenSumSet, MapThenFoldSet, Sum, Adds, First, Rest

(* A function that adds up a set adds up its parts.                        *)
LEMMA Unfold == ASSUME NEW f, NEW S, Adds(f, S), NEW T \in SUBSET S
                PROVE  f[T] = IF T = {} THEN 0 ELSE Weight[First(T)] + f[Rest(T)]
BY DEF Adds

(* Two ways to add up agree where both apply.                              *)
LEMMA SumsAgree ==
    ASSUME NEW R \in SUBSET Tables, NEW S \in SUBSET Tables, NEW f, NEW g, Adds(f, R), Adds(g, S),
           NEW T \in SUBSET (R \cap S)
    PROVE  f[T] = g[T]
<1> DEFINE Bad == {U \in SUBSET (R \cap S) : f[U] # g[U]}
<1> SUFFICES ASSUME Bad # {} PROVE FALSE
  OBVIOUS
<1>1. PICK U \in Bad : \A V \in Bad : V \subseteq U => V = U
  <2>1. Bad \subseteq SUBSET Tables
    OBVIOUS
  <2> HIDE DEF Bad
  <2> QED BY <2>1, Smallest
<1>2. U \in SUBSET R /\ U \in SUBSET S /\ f[U] # g[U]
  OBVIOUS
<1>3. U # {}
  BY <1>2, Unfold
<1>4. Rest(U) \in SUBSET (R \cap S) /\ Rest(U) \subseteq U /\ Rest(U) # U
  BY <1>2, <1>3, FirstOf
<1>5. f[Rest(U)] = g[Rest(U)]
  BY <1>1, <1>4
<1> QED BY <1>2, <1>3, <1>5, Unfold

(* There is one for every set of tables.                                   *)
LEMMA SumExists == ASSUME NEW S \in SUBSET Tables PROVE \E f : Adds(f, S)
<1> DEFINE Bad == {T \in SUBSET Tables : ~ \E f : Adds(f, T)}
<1> SUFFICES ASSUME Bad # {} PROVE FALSE
  OBVIOUS
<1>1. PICK T \in Bad : \A U \in Bad : U \subseteq T => U = T
  <2>1. Bad \subseteq SUBSET Tables
    OBVIOUS
  <2> HIDE DEF Bad
  <2> QED BY <2>1, Smallest
<1>2. ASSUME NEW U \in SUBSET T, U # T
      PROVE  Sum(U) = IF U = {} THEN 0 ELSE Weight[First(U)] + Sum(Rest(U))
  <2>1. PICK f : Adds(f, U)
    BY <1>1, <1>2
  <2>2. Adds(CHOOSE g : Adds(g, U), U)
    BY <2>1
  <2>3. CASE U = {}
    BY <2>2, <2>3, Unfold DEF Sum
  <2>4. CASE U # {}
    <3>1. Rest(U) \in SUBSET T /\ Rest(U) # T /\ Rest(U) \in SUBSET U
      BY <1>2, <2>4, FirstOf
    <3>2. \E g : Adds(g, Rest(U))
      BY <1>1, <3>1
    <3>3. Adds(CHOOSE g : Adds(g, Rest(U)), Rest(U))
      BY <3>2
    <3>4. (CHOOSE g : Adds(g, U))[Rest(U)] = (CHOOSE g : Adds(g, Rest(U)))[Rest(U)]
      BY <2>2, <3>1, <3>3, SumsAgree
    <3> QED BY <2>2, <2>4, <3>4, Unfold DEF Sum
  <2> QED BY <2>3, <2>4
<1> DEFINE h == [U \in SUBSET T |-> IF U = {} THEN 0 ELSE Weight[First(U)] + Sum(Rest(U))]
<1>3. ASSUME NEW U \in SUBSET T, U # {} PROVE h[Rest(U)] = Sum(Rest(U))
  <2>1. Rest(U) \in SUBSET T /\ Rest(U) # T
    BY <1>3, FirstOf
  <2> QED BY <1>2, <2>1
<1>4. Adds(h, T)
  BY <1>3, FirstOf DEF Adds
<1> QED BY <1>1, <1>4

(* So the sum unfolds, and is a number; ...                                *)
LEMMA CostUnfolds ==
    ASSUME NEW S \in SUBSET Tables
    PROVE  Cost(S) = IF S = {} THEN 0 ELSE Weight[First(S)] + Cost(Rest(S))
<1>1. Adds(CHOOSE f : Adds(f, S), S)
  BY SumExists
<1>2. Sum(S) = IF S = {} THEN 0 ELSE Weight[First(S)] + (CHOOSE f : Adds(f, S))[Rest(S)]
  BY <1>1, Unfold DEF Sum
<1>3. ASSUME S # {} PROVE (CHOOSE f : Adds(f, S))[Rest(S)] = Sum(Rest(S))
  <2>1. Rest(S) \in SUBSET S
    BY <1>3, FirstOf
  <2>2. Adds(CHOOSE f : Adds(f, Rest(S)), Rest(S))
    BY <2>1, SumExists
  <2> QED BY <1>1, <2>1, <2>2, SumsAgree DEF Sum
<1> QED BY <1>2, <1>3, CostIsSum

(* ... and it is a natural number for every set of tables; ...             *)
LEMMA CostType == \A S \in SUBSET Tables : Cost(S) \in Nat
<1> DEFINE Bad == {S \in SUBSET Tables : Cost(S) \notin Nat}
<1> SUFFICES ASSUME Bad # {} PROVE FALSE
  OBVIOUS
<1>1. PICK S \in Bad : \A T \in Bad : T \subseteq S => T = S
  <2>1. Bad \subseteq SUBSET Tables
    OBVIOUS
  <2> HIDE DEF Bad
  <2> QED BY <2>1, Smallest
<1>2. S # {}
  BY <1>1, CostUnfolds
<1>3. First(S) \in Tables /\ Rest(S) \in SUBSET Tables /\ Cost(Rest(S)) \in Nat
  BY <1>1, <1>2, FirstOf
<1>4. Weight[First(S)] \in Nat
  BY <1>3, LoadAssumption
<1> QED BY <1>1, <1>2, <1>3, <1>4, CostUnfolds

(* ... it does not depend on the order it is added up in; ...              *)
LEMMA CostWithout ==
    ASSUME NEW S \in SUBSET Tables, NEW t \in S
    PROVE  Cost(S) = Weight[t] + Cost(S \ {t})
<1> DEFINE Bad == {T \in SUBSET Tables : \E u \in T : Cost(T) # Weight[u] + Cost(T \ {u})}
<1> SUFFICES ASSUME Bad # {} PROVE FALSE
  OBVIOUS
<1>1. PICK T \in Bad : \A U \in Bad : U \subseteq T => U = T
  <2>1. Bad \subseteq SUBSET Tables
    OBVIOUS
  <2> HIDE DEF Bad
  <2> QED BY <2>1, Smallest
<1>2. PICK u \in T : Cost(T) # Weight[u] + Cost(T \ {u})
  BY <1>1
<1>9. T \in SUBSET Tables
  BY <1>1
<1> DEFINE v == First(T)
<1>3. v \in T /\ Cost(T) = Weight[v] + Cost(T \ {v})
  BY <1>1, <1>2, FirstOf, CostUnfolds DEF Rest
<1> HIDE DEF v
<1>4. u # v
  BY <1>2, <1>3
<1>5. Cost(T \ {v}) = Weight[u] + Cost((T \ {v}) \ {u})
  BY <1>1, <1>2, <1>3, <1>4
<1>6. Cost(T \ {u}) = Weight[v] + Cost((T \ {u}) \ {v})
  BY <1>1, <1>2, <1>3, <1>4
<1>7. Cost((T \ {v}) \ {u}) = Cost((T \ {u}) \ {v})
  <2>1. (T \ {v}) \ {u} = (T \ {u}) \ {v}
    OBVIOUS
  <2> QED BY <2>1
<1>8. /\ Weight[u] \in Nat /\ Weight[v] \in Nat
      /\ Cost((T \ {u}) \ {v}) \in Nat
  BY <1>2, <1>3, <1>9, CostType, LoadAssumption
<1> HIDE DEF Bad
<1>10. /\ Cost(T) = Weight[v] + (Weight[u] + Cost((T \ {u}) \ {v}))
       /\ Weight[u] + Cost(T \ {u}) = Weight[u] + (Weight[v] + Cost((T \ {u}) \ {v}))
  BY <1>3, <1>5, <1>6, <1>7
<1> QED BY <1>2, <1>8, <1>10

(* ... a set that is part of another costs no more; ...                    *)
LEMMA CostGrows ==
    ASSUME NEW S \in SUBSET Tables, NEW T \in SUBSET S
    PROVE  Cost(T) <= Cost(S)
<1> DEFINE Bad == {U \in SUBSET Tables : T \subseteq U /\ ~(Cost(T) <= Cost(U))}
<1> SUFFICES ASSUME Bad # {} PROVE FALSE
  OBVIOUS
<1>1. PICK U \in Bad : \A V \in Bad : V \subseteq U => V = U
  <2>1. Bad \subseteq SUBSET Tables
    OBVIOUS
  <2> HIDE DEF Bad
  <2> QED BY <2>1, Smallest
<1>2. /\ U \in SUBSET Tables /\ T \subseteq U /\ ~(Cost(T) <= Cost(U))
      /\ Cost(T) \in Nat /\ Cost(U) \in Nat
  BY <1>1, CostType
<1>3. PICK t \in U : t \notin T
  BY <1>2
<1>4. U \ {t} \in SUBSET Tables /\ T \subseteq U \ {t} /\ U \ {t} # U
  BY <1>2, <1>3
<1>5. Cost(T) <= Cost(U \ {t}) /\ Cost(U \ {t}) \in Nat
  BY <1>1, <1>4, CostType
<1>6. Cost(U) = Weight[t] + Cost(U \ {t}) /\ Weight[t] \in Nat
  BY <1>2, <1>3, CostWithout, LoadAssumption
<1> QED BY <1>2, <1>5, <1>6

(* ... and two sets cost at most what each of them does.                   *)
LEMMA CostTogether ==
    ASSUME NEW S \in SUBSET Tables, NEW T \in SUBSET Tables
    PROVE  Cost(S \cup T) <= Cost(S) + Cost(T)
<1> DEFINE Bad == {U \in SUBSET Tables : ~(Cost(S \cup U) <= Cost(S) + Cost(U))}
<1> SUFFICES ASSUME Bad # {} PROVE FALSE
  OBVIOUS
<1>1. PICK U \in Bad : \A V \in Bad : V \subseteq U => V = U
  <2>1. Bad \subseteq SUBSET Tables
    OBVIOUS
  <2> HIDE DEF Bad
  <2> QED BY <2>1, Smallest
<1>2. /\ U \in SUBSET Tables /\ ~(Cost(S \cup U) <= Cost(S) + Cost(U))
      /\ Cost(S) \in Nat /\ Cost(U) \in Nat /\ Cost(S \cup U) \in Nat
  BY <1>1, CostType
<1>3. U # {}
  <2>1. CASE U = {}
    <3>1. S \cup U = S
      BY <2>1
    <3> QED BY <1>2, <3>1
  <2> QED BY <2>1
<1>4. PICK t \in U : TRUE
  BY <1>3
<1>5. U \ {t} \in SUBSET Tables /\ U \ {t} \subseteq U /\ U \ {t} # U /\ Weight[t] \in Nat
  BY <1>2, <1>4, LoadAssumption
<1>6. Cost(S \cup (U \ {t})) <= Cost(S) + Cost(U \ {t})
  BY <1>1, <1>5
<1>7. Cost(U) = Weight[t] + Cost(U \ {t}) /\ Cost(U \ {t}) \in Nat
  BY <1>2, <1>4, <1>5, CostWithout, CostType
<1>8. Cost(S \cup U) <= Weight[t] + Cost(S \cup (U \ {t}))
  <2>1. S \cup U \in SUBSET Tables /\ t \in S \cup U
    BY <1>2, <1>4
  <2>2. Cost(S \cup U) = Weight[t] + Cost((S \cup U) \ {t})
    BY <2>1, CostWithout
  <2>3. (S \cup U) \ {t} \in SUBSET (S \cup (U \ {t})) /\ S \cup (U \ {t}) \in SUBSET Tables
    BY <2>1
  <2>4. Cost((S \cup U) \ {t}) <= Cost(S \cup (U \ {t}))
    BY <2>3, CostGrows
  <2>5. Cost((S \cup U) \ {t}) \in Nat /\ Cost(S \cup (U \ {t})) \in Nat
    BY <2>3, CostType
  <2> QED BY <1>5, <2>2, <2>4, <2>5
<1>9. Cost(S \cup (U \ {t})) \in Nat
  BY <1>2, CostType
<1> QED BY <1>2, <1>5, <1>6, <1>7, <1>8, <1>9

-----------------------------------------------------------------------------
(* Tables whose create has reserved, tables that count for the cap, and    *)
(* tables that the pass has admitted and not brought back yet: those that  *)
(* it took for another reason, retired ones, come back exempt, archived or *)
(* not at all.                                                             *)
Creating == {t \in Tables : creating[t] \in {"row", "entry"}}
Counts(t) == entry[t] = "live" /\ t \notin exempt
Counted == {t \in Tables : Counts(t)}
Playable(r) == r # None /\ r.open /\ ~r.archived
Awaited(t) ==
    /\ pass.at \notin {"idle", "read"} /\ t \notin exempt
    /\ \/ t \in pass.files \cup pass.rooms /\ Playable(row[t])
       \/ pass.loading = t /\ Playable(pass.copy)
Admitted == {t \in Tables : Awaited(t)}

(* The inductive invariant: what is reserved is what the creates and the   *)
(* pass under way hold, the pass of a server that takes creates holds what *)
(* it has still to bring back, ...                                         *)
Booked ==
    /\ pass.held \in Nat
    /\ reserved = Cost(Creating) + pass.held
    /\ pass.at \in {"idle", "read"} => pass.held = 0
    /\ serving => Cost(Admitted) <= pass.held

(* ... and what counts, what is admitted and what is being created fit.    *)
Fitting == Cost(Counted \cup Admitted) + Cost(Creating) <= Cap

(* The types that IInv leaves out.                                         *)
Others == pass.keep \subseteq Tables /\ pass.blind \in BOOLEAN /\ exempt \subseteq Tables

LInv == IInv /\ Booked /\ Fitting /\ Others

-----------------------------------------------------------------------------
(* The sets that costs are asked of are sets of tables.                    *)
LEMMA Sets == /\ Creating \in SUBSET Tables /\ Admitted \in SUBSET Tables
              /\ Counted \in SUBSET Tables /\ Counted \cup Admitted \in SUBSET Tables
BY DEF Creating, Admitted, Counted

(* A step that takes nothing on and reserves nothing: what counts then did *)
(* count, or was admitted, and nothing else is admitted.                   *)
LEMMA TakesNothingOn ==
    ASSUME LInv, UNCHANGED <<creating, reserved, serving>>,
           pass'.held = pass.held, pass'.at \in {"idle", "read"} => pass.held = 0,
           \A t \in Tables : Awaited(t)' => Awaited(t),
           \A t \in Tables : Counts(t)' => Counts(t) \/ Awaited(t)
    PROVE  Booked' /\ Fitting'
<1>1. /\ Creating' = Creating /\ Admitted' \subseteq Admitted
      /\ Counted' \cup Admitted' \subseteq Counted \cup Admitted
  BY DEF Creating, Admitted, Counted
<1>2. /\ Cost(Admitted') <= Cost(Admitted)
      /\ Cost(Counted' \cup Admitted') <= Cost(Counted \cup Admitted)
  BY <1>1, Sets, CostGrows
<1>3. /\ Cost(Admitted') \in Nat /\ Cost(Admitted) \in Nat /\ Cost(Creating) \in Nat
      /\ Cost(Counted' \cup Admitted') \in Nat /\ Cost(Counted \cup Admitted) \in Nat
      /\ Cap \in Nat
  BY <1>1, Sets, CostType, LoadAssumption
<1>4. Booked'
  BY <1>1, <1>2, <1>3 DEF LInv, Booked
<1>5. Fitting'
  BY <1>1, <1>2, <1>3 DEF LInv, Fitting
<1> QED BY <1>4, <1>5

(* Its case where the pass is not concerned.                               *)
LEMMA PassApart ==
    ASSUME LInv, UNCHANGED <<creating, reserved, serving, pass>>,
           \A t \in Tables : InPass(t) /\ Playable(row'[t]) => Playable(row[t]) \/ t \in exempt',
           \A t \in Tables : t \in exempt => t \in exempt' \/ ~InPass(t),
           \A t \in Tables : Counts(t)' => Counts(t)
    PROVE  Booked' /\ Fitting'
<1>1. \A t \in Tables : Awaited(t)' => Awaited(t)
  BY DEF Awaited, InPass
<1>2. pass'.at \in {"idle", "read"} => pass.held = 0
  BY DEF LInv, Booked
<1> QED BY <1>1, <1>2, TakesNothingOn


(* What the types and the other parts of the invariant say of a table.     *)
LEMMA Typed ==
    ASSUME LInv
    PROVE  /\ row \in [Tables -> Row \cup {None}]
           /\ entry \in [Tables -> {"none", "live", "archived"}]
           /\ creating \in [Tables -> {"no", "row", "entry", "done"}]
           /\ None \notin Tables /\ None \notin Row
           /\ \A t \in Tables : InPass(t) => entry[t] = "none" /\ creating[t] = "done"
BY TablesAssumption DEF LInv, IInv, Types, Absent, Created

(* Tables that are not being created are not reserved for.                 *)
LEMMA CreateLoad ==
    ASSUME LInv, NEW t \in Tables
    PROVE  BeginCreate(t) \/ WriteRow(t) \/ FailCreate(t) \/ Publish(t) \/ WriteFile(t)
             => Booked' /\ Fitting' /\ Others'
<1> USE DEF disk, lobby
<1>0. /\ Cost(Creating) \in Nat /\ Cost(Admitted) \in Nat /\ Cost(Counted \cup Admitted) \in Nat
      /\ Cap \in Nat /\ Weight[t] \in Nat /\ pass.held \in Nat
      /\ reserved = Cost(Creating) + pass.held
  BY Sets, CostType, LoadAssumption DEF LInv, Booked
<1>1. CASE BeginCreate(t)
  <2>1. Creating' = Creating \cup {t} /\ t \notin Creating
    BY <1>1, Typed DEF BeginCreate, Creating
  <2>2. Cost(Creating') = Weight[t] + Cost(Creating)
    <3>1. Creating' \in SUBSET Tables /\ t \in Creating' /\ Creating' \ {t} = Creating
      BY <2>1, Sets
    <3> QED BY <3>1, CostWithout
  <2>3. Admitted' = Admitted /\ Counted' = Counted
    BY <1>1 DEF BeginCreate, Admitted, Awaited, Counted, Counts
  <2>4. serving /\ reserved' = reserved + Weight[t] /\ Cost(Live) + reserved + Weight[t] <= Cap
    BY <1>1 DEF BeginCreate, Fits, Load
  <2>5. UNCHANGED <<pass, serving, exempt>>
    BY <1>1 DEF BeginCreate
  <2>6. Booked'
    BY <1>0, <2>2, <2>3, <2>4, <2>5 DEF LInv, Booked
  <2>7. Cost(Counted \cup Admitted) <= Cost(Live) + pass.held
    <3>1. /\ Live \in SUBSET Tables /\ Counted \in SUBSET Live
      BY DEF Live, Counted, Counts
    <3>2. Cost(Counted) <= Cost(Live) /\ Cost(Admitted) <= pass.held
      BY <2>4, <3>1, CostGrows DEF LInv, Booked
    <3>3. Cost(Counted \cup Admitted) <= Cost(Counted) + Cost(Admitted)
      BY Sets, CostTogether
    <3>4. Cost(Counted) \in Nat /\ Cost(Live) \in Nat
      BY <3>1, Sets, CostType
    <3> QED BY <1>0, <3>2, <3>3, <3>4
  <2>8. Fitting'
    <3>1. Cost(Live) \in Nat
      BY CostType DEF Live
    <3>2. Cost(Counted \cup Admitted) + (Weight[t] + Cost(Creating)) <= Cap
      BY <1>0, <2>4, <2>7, <3>1
    <3> QED BY <2>2, <2>3, <3>2 DEF Fitting
  <2> QED BY <2>5, <2>6, <2>8 DEF LInv, Others
<1>2. CASE WriteRow(t)
  <2>1. Creating' = Creating
    BY <1>2, Typed DEF WriteRow, Creating
  <2>2. ~InPass(t)
    BY <1>2, Typed DEF WriteRow
  <2>3. Admitted' = Admitted /\ Counted' = Counted
    BY <1>2, <2>2, Typed DEF WriteRow, Admitted, Awaited, Counted, Counts, InPass
  <2>4. UNCHANGED <<pass, serving, exempt, reserved>>
    BY <1>2 DEF WriteRow
  <2> QED BY <2>1, <2>3, <2>4 DEF LInv, Booked, Fitting, Others
<1>3. CASE FailCreate(t) \/ Publish(t)
  <2>1. Creating' = Creating \ {t} /\ t \in Creating
    BY <1>3, Typed DEF FailCreate, Publish, Creating
  <2>2. Cost(Creating) = Weight[t] + Cost(Creating') /\ Cost(Creating') \in Nat
    BY <2>1, Sets, CostWithout, CostType
  <2>3. UNCHANGED <<pass, serving, exempt, row>> /\ reserved' = reserved - Weight[t]
    BY <1>3 DEF FailCreate, Publish
  <2>4. Admitted' = Admitted
    BY <2>3 DEF Admitted, Awaited
  <2>5. Booked'
    BY <1>0, <2>2, <2>3, <2>4 DEF LInv, Booked
  <2>6. Counted' \cup Admitted' \subseteq (Counted \cup Admitted) \cup {t}
    BY <1>3, <2>4, Typed DEF FailCreate, Publish, Counted, Counts
  <2>7. Cost(Counted' \cup Admitted') <= Cost(Counted \cup Admitted) + Weight[t]
    <3> DEFINE W == (Counted \cup Admitted) \cup {t}
    <3>1. W \in SUBSET Tables /\ t \in W /\ W \ {t} \subseteq Counted \cup Admitted
      BY Sets
    <3>2. Cost(W) = Weight[t] + Cost(W \ {t})
      BY <3>1, CostWithout
    <3>3. Cost(W \ {t}) <= Cost(Counted \cup Admitted) /\ Cost(Counted' \cup Admitted') <= Cost(W)
      BY <2>6, <3>1, Sets, CostGrows
    <3>4. /\ Cost(W \ {t}) \in Nat /\ Cost(W) \in Nat /\ Cost(Counted' \cup Admitted') \in Nat
      BY <2>6, <3>1, CostType
    <3> HIDE DEF W
    <3> QED BY <1>0, <3>2, <3>3, <3>4
  <2>8. Cost(Counted' \cup Admitted') \in Nat
    BY <2>6, Sets, CostType
  <2>9. Fitting'
    BY <1>0, <2>2, <2>7, <2>8 DEF LInv, Fitting
  <2> QED BY <2>3, <2>5, <2>9 DEF LInv, Others
<1>4. CASE WriteFile(t)
  <2>1. UNCHANGED <<pass, serving, exempt, reserved, row, entry, creating>>
    BY <1>4 DEF WriteFile
  <2>2. Creating' = Creating /\ Admitted' = Admitted /\ Counted' = Counted
    BY <2>1 DEF Creating, Admitted, Awaited, Counted, Counts
  <2> QED BY <2>1, <2>2 DEF LInv, Booked, Fitting, Others
<1> QED BY <1>1, <1>2, <1>3, <1>4

(* Archiving, unloading and deleting never take load on that asked the     *)
(* cap: what they put among the live, or make ready to be, is exempt.      *)
LEMMA ArchiveLoad ==
    ASSUME LInv, NEW t \in Tables, NEW archived \in BOOLEAN
    PROVE  SetArchived(t, archived) \/ SetArchivedUnresident(t, archived) \/ BeginUnload(t)
           \/ FinishUnload(t) => Booked' /\ Fitting' /\ Others'
<1> USE DEF disk, lobby
<1>1. CASE SetArchived(t, archived) \/ BeginUnload(t)
  <2>1. ~InPass(t)
    BY <1>1, Typed DEF SetArchived, BeginUnload
  <2>2. \A u \in Tables \ {t} : row'[u] = row[u]
    BY <1>1, Typed DEF SetArchived, BeginUnload
  <2>3. \A u \in Tables \ {t} : u \in exempt' <=> u \in exempt
    BY <1>1 DEF SetArchived, BeginUnload
  <2>4. \A u \in Tables : Counts(u)' => Counts(u)
    BY <1>1, Typed DEF SetArchived, BeginUnload, Counts
  <2>5. UNCHANGED <<creating, reserved, serving, pass>> /\ exempt' \subseteq exempt \cup {t}
    BY <1>1 DEF SetArchived, BeginUnload
  <2>6. Booked' /\ Fitting'
    BY <2>1, <2>2, <2>3, <2>4, <2>5, PassApart
  <2> QED BY <2>5, <2>6 DEF LInv, Others
<1>2. CASE SetArchivedUnresident(t, archived)
  <2>1. row' = [row EXCEPT ![t] = [row[t] EXCEPT !.archived = archived]] /\ row[t] \in Row
    BY <1>2, Typed DEF SetArchivedUnresident
  <2>2. row'[t].archived = archived /\ \A u \in Tables \ {t} : row'[u] = row[u]
    BY <2>1, Typed DEF Row
  <2>3. exempt \subseteq exempt' /\ (~archived => t \in exempt')
    BY <1>2 DEF SetArchivedUnresident
  <2>4. UNCHANGED <<creating, reserved, serving, pass, entry>> /\ exempt' \subseteq exempt \cup {t}
    BY <1>2 DEF SetArchivedUnresident
  <2>5. Booked' /\ Fitting'
    BY <2>2, <2>3, <2>4, PassApart DEF Counts, Playable
  <2> QED BY <2>4, <2>5 DEF LInv, Others
<1>3. CASE FinishUnload(t)
  <2>1. UNCHANGED <<creating, reserved, serving, pass, row, exempt>>
    BY <1>3 DEF FinishUnload
  <2>2. \A u \in Tables : Counts(u)' => Counts(u)
    BY <1>3, Typed DEF FinishUnload, Counts
  <2>3. Booked' /\ Fitting'
    BY <2>1, <2>2, PassApart
  <2> QED BY <2>1, <2>3 DEF LInv, Others
<1> QED BY <1>1, <1>2, <1>3

(* A deletion, in either order, only takes a table out of the load.        *)
LEMMA DeleteLoad ==
    ASSUME LInv, NEW t \in Tables
    PROVE  BeginDelete(t) \/ FinishDelete(t) \/ BeginDeleteUnresident(t)
           \/ FinishDeleteUnresident(t) => Booked' /\ Fitting' /\ Others'
<1> USE DEF disk, lobby
<1>1. CASE BeginDelete(t)
  <2>1. ~InPass(t) /\ UNCHANGED <<creating, reserved, serving, pass, row>> /\ exempt' = exempt \ {t}
    BY <1>1, Typed DEF BeginDelete
  <2>2. \A u \in Tables : Counts(u)' => Counts(u)
    BY <1>1, Typed DEF BeginDelete, Counts
  <2>3. Booked' /\ Fitting'
    BY <2>1, <2>2, PassApart
  <2> QED BY <2>1, <2>3 DEF LInv, Others
<1>2. CASE FinishDelete(t) \/ BeginDeleteUnresident(t) \/ FinishDeleteUnresident(t)
  <2>1. /\ UNCHANGED <<creating, reserved, serving, pass, entry, exempt>>
        /\ row' \in {row, [row EXCEPT ![t] = None]}
    BY <1>2 DEF FinishDelete, BeginDeleteUnresident, FinishDeleteUnresident
  <2>2. \A u \in Tables : Playable(row'[u]) => Playable(row[u])
    BY <2>1, Typed DEF Playable
  <2>3. Booked' /\ Fitting'
    BY <2>1, <2>2, PassApart DEF Counts
  <2> QED BY <2>1, <2>3 DEF LInv, Others
<1> QED BY <1>1, <1>2

(* What the pass brings back moves from its files to its rooms, to the     *)
(* entry that is loading, to the lobby, and is never taken on twice.       *)
LEMMA RestoreLoad ==
    ASSUME LInv, NEW t \in Tables
    PROVE  Rebuild(t) \/ LoadEntry(t) \/ FailLoad(t) \/ Adopt(t) => Booked' /\ Fitting' /\ Others'
<1> USE DEF disk, lobby
<1>0. PassShape /\ pass.keep \subseteq Tables /\ pass.blind \in BOOLEAN /\ exempt \subseteq Tables
  BY DEF LInv, IInv, Types, Others
<1>1. CASE Rebuild(t) \/ FailLoad(t)
  <2>1. /\ pass'.at = pass.at /\ pass'.held = pass.held /\ pass'.blind = pass.blind
        /\ pass'.loading = pass.loading /\ pass'.copy = pass.copy
        /\ pass'.files \cup pass'.rooms \subseteq pass.files \cup pass.rooms
        /\ pass'.keep \subseteq pass.keep \cup {t}
    <3>1. CASE Rebuild(t) /\ verdict[t] = "restorable"
      <4>1. /\ pass' = [pass EXCEPT !.files = pass.files \ {t}, !.rooms = pass.rooms \cup {t}]
            /\ t \in pass.files
        BY <3>1 DEF Rebuild
      <4> QED BY <1>0, <4>1 DEF PassShape
    <3>2. CASE Rebuild(t) /\ verdict[t] # "restorable"
      <4> DEFINE k == IF verdict[t] = "newer" THEN pass.keep \cup {t} ELSE pass.keep
      <4>1. pass' = [pass EXCEPT !.files = pass.files \ {t}, !.keep = k]
        BY <3>2 DEF Rebuild
      <4>2. k \subseteq pass.keep \cup {t}
        OBVIOUS
      <4> HIDE DEF k
      <4> QED BY <1>0, <4>1, <4>2 DEF PassShape
    <3>3. CASE FailLoad(t)
      <4>1. pass' = [pass EXCEPT !.rooms = pass.rooms \ {t}]
        BY <3>3 DEF FailLoad
      <4> QED BY <1>0, <4>1 DEF PassShape
    <3> QED BY <1>1, <3>1, <3>2, <3>3
  <2>2. UNCHANGED <<creating, reserved, serving, row, entry, exempt>>
    BY <1>1 DEF Rebuild, FailLoad
  <2>3. \A u \in Tables : Awaited(u)' => Awaited(u)
    BY <2>1, <2>2 DEF Awaited
  <2>4. Booked' /\ Fitting'
    BY <2>1, <2>2, <2>3, TakesNothingOn DEF Counts, LInv, Booked
  <2> QED BY <1>0, <2>1, <2>2, <2>4 DEF Others
<1>2. CASE LoadEntry(t)
  <2>1. pass' = [pass EXCEPT !.rooms = pass.rooms \ {t}, !.loading = t, !.copy = row[t]]
    BY <1>2 DEF LoadEntry
  <2>2. /\ pass'.at = pass.at /\ pass'.held = pass.held /\ pass'.blind = pass.blind
        /\ pass'.loading = t /\ pass'.copy = row[t] /\ pass'.keep = pass.keep
        /\ pass'.files = pass.files /\ pass'.rooms = pass.rooms \ {t}
    BY <1>0, <2>1 DEF PassShape
  <2>3. UNCHANGED <<creating, reserved, serving, row, entry, exempt>> /\ t \in pass.rooms
    BY <1>2 DEF LoadEntry
  <2>4. \A u \in Tables : Awaited(u)' => Awaited(u)
    BY <2>2, <2>3 DEF Awaited
  <2>5. Booked' /\ Fitting'
    BY <2>2, <2>3, <2>4, TakesNothingOn DEF Counts, LInv, Booked
  <2> QED BY <1>0, <2>2, <2>3, <2>5 DEF Others
<1>3. CASE Adopt(t)
  <2>1. pass' = [pass EXCEPT !.loading = None] /\ pass.loading = t
    BY <1>3 DEF Adopt
  <2>2. /\ pass'.at = pass.at /\ pass'.held = pass.held /\ pass'.blind = pass.blind
        /\ pass'.loading = None /\ pass'.keep = pass.keep
        /\ pass'.files = pass.files /\ pass'.rooms = pass.rooms
    BY <1>0, <2>1 DEF PassShape
  <2>3. /\ UNCHANGED <<creating, reserved, serving>>
        /\ exempt' = (IF pass.copy.open THEN exempt ELSE exempt \cup {t})
        /\ entry' = [entry EXCEPT ![t] = IF pass.copy.archived THEN "archived" ELSE "live"]
        /\ \A u \in Tables \ {t} : row'[u] = row[u]
    BY <1>3, Typed DEF Adopt
  <2>4. t \notin pass.rooms /\ pass.files = {} /\ pass.at = "adopting"
    BY <2>1, Typed DEF LInv, IInv, Stages
  <2>5. \A u \in Tables : Awaited(u)' => Awaited(u)
    BY <2>2, <2>3, <2>4, Typed DEF Awaited
  <2>6. pass.copy # None
    BY <1>0, Typed DEF PassShape
  <2>7. \A u \in Tables : Counts(u)' => Counts(u) \/ Awaited(u)
    BY <2>1, <2>3, <2>4, <2>6, Typed DEF Counts, Awaited, Playable
  <2>8. Booked' /\ Fitting'
    BY <2>2, <2>3, <2>5, <2>7, TakesNothingOn DEF LInv, Booked
  <2> QED BY <1>0, <2>2, <2>3, <2>8 DEF Others
<1> QED BY <1>1, <1>2, <1>3

(* The pass begins with nothing on its hands, ...                          *)
LEMMA ReadLoad ==
    ASSUME LInv, NEW S \in SUBSET Tables, ReadFiles(S)
    PROVE  Booked' /\ Fitting' /\ Others'
<1> USE DEF disk, lobby
<1>1. /\ pass.at = "idle" /\ pass'.at = "read" /\ pass'.held = 0 /\ pass'.keep = {}
      /\ pass'.blind \in BOOLEAN /\ pass.held = 0
  BY DEF ReadFiles, IdlePass, LInv, Booked
<1>2. UNCHANGED <<creating, reserved, serving, row, entry, exempt>>
  BY DEF ReadFiles
<1>3. Booked' /\ Fitting'
  BY <1>1, <1>2, TakesNothingOn DEF Awaited, Counts
<1> QED BY <1>1, <1>2, <1>3 DEF LInv, Others

(* ... admits what fits beside the live and the reserved, and reserves it  *)
(* unless it is alone; ...                                                 *)
LEMMA AdmitLoad ==
    ASSUME LInv, Admit
    PROVE  Booked' /\ Fitting' /\ Others'
<1> USE DEF disk, lobby
<1> DEFINE queue == {t \in pass.files : ~Retired(t)}
<1>0. PassShape /\ pass.keep \subseteq Tables /\ pass.blind \in BOOLEAN /\ exempt \subseteq Tables
  BY DEF LInv, IInv, Types, Others
<1>1. PICK A \in FirstFit(queue) :
         /\ pass' = [pass EXCEPT !.at = "rebuilding", !.files = pass.files \ (queue \ A),
                                 !.keep = queue \ A, !.held = IF serving THEN Cost(A) ELSE 0]
         /\ exempt' = exempt \ A
         /\ reserved' = reserved + pass'.held
  BY DEF Admit
<1>2. /\ pass.at = "read" /\ UNCHANGED <<creating, serving, row, entry>>
      /\ pass.files \subseteq Tables /\ queue \subseteq pass.files
  BY <1>0 DEF Admit, PassShape
<1>3. A \in SUBSET Tables /\ A \subseteq queue /\ (Fits(Load, Cost(A)) \/ A = {})
  BY <1>1, <1>2 DEF FirstFit
<1>4. /\ pass'.at = "rebuilding" /\ pass'.files = pass.files \ (queue \ A)
      /\ pass'.rooms = pass.rooms /\ pass'.keep = queue \ A /\ pass'.blind = pass.blind
      /\ pass'.loading = pass.loading /\ pass'.held = IF serving THEN Cost(A) ELSE 0
  <2> HIDE DEF queue
  <2> QED BY <1>0, <1>1 DEF PassShape
<1>5. pass.rooms = {} /\ pass.loading = None /\ None \notin Tables
  BY <1>2, Typed DEF LInv, IInv, Stages
<1>6. Admitted' \subseteq A
  <2>1. ASSUME NEW t \in Tables, Awaited(t)'
        PROVE  t \in A
    <3>1. t \in pass.files \ (queue \ A) /\ Playable(row[t])
      BY <1>2, <1>4, <1>5, <2>1 DEF Awaited
    <3>2. t \in queue
      BY <3>1 DEF Retired, Playable
    <3> QED BY <3>1, <3>2
  <2> QED BY <2>1 DEF Admitted
<1>7. Creating' = Creating /\ Counted' = Counted
  <2>1. \A t \in A : entry[t] = "none"
    BY <1>2, <1>3, Typed DEF InPass
  <2> QED BY <1>1, <1>2, <2>1 DEF Creating, Counted, Counts
<1>8. /\ Cost(Admitted') <= Cost(A) /\ Cost(Admitted') \in Nat /\ Cost(A) \in Nat
      /\ Cost(Creating) \in Nat /\ Cost(Counted) \in Nat /\ Cost(Counted \cup Admitted) \in Nat
  <2>1. Admitted' \in SUBSET A /\ Admitted' \in SUBSET Tables
    BY <1>3, <1>6
  <2> QED BY <1>3, <2>1, Sets, CostGrows, CostType
<1>9. pass.held = 0 /\ reserved = Cost(Creating)
  BY <1>2, <1>8 DEF LInv, Booked
<1>10. Booked'
  BY <1>1, <1>2, <1>4, <1>7, <1>8, <1>9 DEF Booked
<1>11. Cost(Counted \cup Admitted') + Cost(Creating) <= Cap
  <2>1. /\ Admitted' \in SUBSET Tables /\ Counted \cup Admitted' \in SUBSET Tables
        /\ Cap \in Nat
    BY <1>3, <1>6, Sets, LoadAssumption
  <2>2. CASE A = {}
    <3>1. Counted \cup Admitted' \subseteq Counted \cup Admitted
      BY <1>6, <2>2
    <3>2. /\ Cost(Counted \cup Admitted') <= Cost(Counted \cup Admitted)
          /\ Cost(Counted \cup Admitted') \in Nat
      BY <2>1, <3>1, Sets, CostGrows, CostType
    <3> QED BY <1>8, <2>1, <3>2 DEF LInv, Fitting
  <2>3. CASE Fits(Load, Cost(A))
    <3>1. /\ Live \in SUBSET Tables /\ Counted \in SUBSET Live
      BY DEF Live, Counted, Counts
    <3>2. Cost(Counted) <= Cost(Live) /\ Cost(Live) \in Nat
      BY <3>1, CostGrows, CostType
    <3>3. Cost(Live) + Cost(Creating) + Cost(A) <= Cap
      BY <1>9, <2>3 DEF Fits, Load
    <3>4. /\ Cost(Counted \cup Admitted') <= Cost(Counted) + Cost(Admitted')
          /\ Cost(Counted \cup Admitted') \in Nat
      BY <2>1, Sets, CostTogether, CostType
    <3> QED BY <1>8, <2>1, <3>2, <3>3, <3>4
  <2> QED BY <1>3, <2>2, <2>3
<1>12. Fitting'
  BY <1>7, <1>11 DEF Fitting
<1>13. Others'
  BY <1>0, <1>1, <1>2, <1>4 DEF Others
<1> QED BY <1>10, <1>12, <1>13

(* ... and ends with nothing on its hands, as the process does.            *)
LEMMA EndLoad ==
    ASSUME LInv, EndRebuild \/ EndPass \/ Crash
    PROVE  Booked' /\ Fitting' /\ Others'
<1> USE DEF disk, lobby
<1>0. PassShape /\ pass.keep \subseteq Tables /\ pass.blind \in BOOLEAN /\ exempt \subseteq Tables
  BY DEF LInv, IInv, Types, Others
<1>1. CASE EndRebuild
  <2>1. /\ pass'.at = "adopting" /\ pass'.held = pass.held /\ pass'.blind = pass.blind
        /\ pass'.loading = pass.loading /\ pass'.copy = pass.copy /\ pass'.keep = pass.keep
        /\ pass'.files = pass.files /\ pass'.rooms = pass.rooms /\ pass.at = "rebuilding"
    BY <1>0, <1>1 DEF EndRebuild, PassShape
  <2>2. UNCHANGED <<creating, reserved, serving, row, entry, exempt>>
    BY <1>1 DEF EndRebuild
  <2>3. \A u \in Tables : Awaited(u)' => Awaited(u)
    BY <2>1, <2>2 DEF Awaited
  <2>4. Booked' /\ Fitting'
    BY <2>1, <2>2, <2>3, TakesNothingOn DEF Counts
  <2> QED BY <1>0, <2>1, <2>2, <2>4 DEF Others
<1>2. CASE EndPass
  <2>1. /\ pass'.at = "idle" /\ pass'.held = 0 /\ pass'.keep = {} /\ pass'.blind = FALSE
    BY <1>2 DEF EndPass, IdlePass
  <2>2. /\ reserved' = reserved - pass.held /\ UNCHANGED <<creating, entry, exempt>>
    BY <1>2 DEF EndPass
  <2>3. Admitted' = {} /\ Creating' = Creating /\ Counted' = Counted
    BY <2>1, <2>2 DEF Admitted, Awaited, Creating, Counted, Counts
  <2>4. /\ Cost(Creating) \in Nat /\ Cost(Counted) <= Cost(Counted \cup Admitted)
        /\ Cost(Counted) \in Nat /\ Cost(Counted \cup Admitted) \in Nat /\ Cap \in Nat
    <3>1. Counted \in SUBSET (Counted \cup Admitted)
      OBVIOUS
    <3> QED BY <3>1, Sets, CostType, CostGrows, LoadAssumption
  <2>5. Cost({}) = 0
    BY CostUnfolds
  <2>6. Booked'
    BY <2>1, <2>2, <2>3, <2>4, <2>5 DEF LInv, Booked
  <2>7. Cost(Counted) + Cost(Creating) <= Cap
    BY <2>4 DEF LInv, Fitting
  <2>8. Fitting'
    <3>1. Counted' \cup Admitted' = Counted
      BY <2>3
    <3> QED BY <2>3, <2>7, <3>1 DEF Fitting
  <2> QED BY <1>0, <2>1, <2>2, <2>6, <2>8 DEF Others
<1>3. CASE Crash
  <2>1. pass'.at = "idle" /\ pass'.held = 0 /\ pass'.keep = {} /\ pass'.blind = FALSE
    BY <1>3 DEF Crash, IdlePass
  <2>2. reserved' = 0 /\ exempt' = {}
    BY <1>3 DEF Crash
  <2>3. Admitted' = {} /\ Counted' = {}
    BY <1>3, <2>1 DEF Crash, Admitted, Awaited, Counted, Counts
  <2>4. Creating' = {}
    BY <1>3 DEF Crash, Creating
  <2>5. Cost({}) = 0 /\ Cap \in Nat
    BY CostUnfolds, LoadAssumption
  <2>6. Booked'
    BY <2>1, <2>2, <2>3, <2>4, <2>5 DEF Booked
  <2>7. Fitting'
    <3>1. Counted' \cup Admitted' = {}
      BY <2>3
    <3> QED BY <2>4, <2>5, <3>1 DEF Fitting
  <2> QED BY <2>1, <2>2, <2>6, <2>7 DEF Others
<1> QED BY <1>1, <1>2, <1>3

-----------------------------------------------------------------------------
(* The invariant of the load holds at first, ...                           *)
LEMMA InitLoad == Init => LInv
<1> SUFFICES ASSUME Init PROVE LInv
  OBVIOUS
<1>1. IInv
  BY InitHolds
<1>2. pass.at = "idle" /\ pass.held = 0 /\ pass.keep = {} /\ pass.blind = FALSE
  BY DEF Init, IdlePass
<1>3. Creating = {} /\ Admitted = {} /\ Counted = {} /\ reserved = 0 /\ exempt = {}
  BY <1>2 DEF Init, Creating, Admitted, Awaited, Counted, Counts
<1>4. Cost({}) = 0 /\ Cap \in Nat
  BY CostUnfolds, LoadAssumption
<1>5. Booked
  BY <1>2, <1>3, <1>4 DEF Booked
<1>6. Fitting
  <2>1. Counted \cup Admitted = {}
    BY <1>3
  <2> QED BY <1>3, <1>4, <2>1 DEF Fitting
<1> QED BY <1>1, <1>2, <1>3, <1>5, <1>6 DEF LInv, Others

(* ... through every step, ...                                             *)
LEMMA StepLoad == LInv /\ [Next]_vars => LInv'
<1> SUFFICES ASSUME LInv, [Next]_vars PROVE LInv'
  OBVIOUS
<1>1. IInv'
  BY StepHolds DEF LInv
<1>2. CASE UNCHANGED vars
  <2>1. UNCHANGED <<creating, reserved, serving, row, entry, exempt, pass>>
    BY <1>2 DEF vars, disk, lobby
  <2>2. Creating' = Creating /\ Admitted' = Admitted /\ Counted' = Counted
    BY <2>1 DEF Creating, Admitted, Awaited, Counted, Counts
  <2> QED BY <1>1, <2>1, <2>2 DEF LInv, Booked, Fitting, Others
<1>3. ASSUME NEW t \in Tables,
             BeginCreate(t) \/ WriteRow(t) \/ FailCreate(t) \/ Publish(t) \/ WriteFile(t)
      PROVE  LInv'
  BY <1>1, <1>3, CreateLoad DEF LInv
<1>4. ASSUME NEW t \in Tables, NEW archived \in BOOLEAN,
             SetArchived(t, archived) \/ SetArchivedUnresident(t, archived)
      PROVE  LInv'
  BY <1>1, <1>4, ArchiveLoad DEF LInv
<1>5. ASSUME NEW t \in Tables, BeginUnload(t) \/ FinishUnload(t)
      PROVE  LInv'
  BY <1>1, <1>5, ArchiveLoad DEF LInv
<1>6. ASSUME NEW t \in Tables,
             \/ BeginDelete(t) \/ FinishDelete(t)
             \/ BeginDeleteUnresident(t) \/ FinishDeleteUnresident(t)
      PROVE  LInv'
  BY <1>1, <1>6, DeleteLoad DEF LInv
<1>7. ASSUME NEW t \in Tables, Rebuild(t) \/ LoadEntry(t) \/ FailLoad(t) \/ Adopt(t)
      PROVE  LInv'
  BY <1>1, <1>7, RestoreLoad DEF LInv
<1>8. ASSUME NEW S \in SUBSET Tables, ReadFiles(S)
      PROVE  LInv'
  BY <1>1, <1>8, ReadLoad DEF LInv
<1>9. CASE Admit \/ EndRebuild \/ EndPass \/ Crash
  BY <1>1, <1>9, AdmitLoad, EndLoad DEF LInv
<1> QED BY <1>2, <1>3, <1>4, <1>5, <1>6, <1>7, <1>8, <1>9 DEF Next

(* ... and so always.                                                      *)
LEMMA LInvAlways == Spec => []LInv
BY InitLoad, StepLoad, PTL DEF Spec

(* No stage of the pass, lock or entry outside what the lobby's steps may  *)
(* write, and never less than nothing in reserve (Lobby.reserved).         *)
THEOREM TypeCorrect == Spec => []TypeOK
<1>1. ASSUME LInv PROVE TypeOK
  <2>1. Types /\ PassShape /\ Others /\ Booked
    BY <1>1 DEF LInv, IInv, Types
  <2>2. Cost(Creating) \in Nat
    BY Sets, CostType
  <2>3. pass \in Pass
    <3>1. pass.held \in Nat
      BY <2>1 DEF Booked
    <3> QED BY <2>1, <3>1 DEF PassShape, Others, Pass
  <2>4. reserved \in Nat
    BY <2>1, <2>2 DEF Booked
  <2> QED BY <2>1, <2>3, <2>4 DEF TypeOK, Types, Others
<1> QED BY <1>1, LInvAlways, PTL

(* The tables that had to ask the cap fit under it, through creates and a  *)
(* hot restore that overlap, archivings, failures and restarts             *)
(* (reserveLocked, admitHeld).                                             *)
THEOREM LoadFitsAlways == Spec => []LoadFits
<1>1. ASSUME LInv PROVE LoadFits
  <2>1. Live \ exempt = Counted
    BY DEF Live, Counted, Counts
  <2>2. Counted \in SUBSET (Counted \cup Admitted)
    OBVIOUS
  <2>3. /\ Cost(Counted) <= Cost(Counted \cup Admitted) /\ Cost(Counted) \in Nat
        /\ Cost(Counted \cup Admitted) \in Nat /\ Cost(Creating) \in Nat /\ Cap \in Nat
    BY <2>2, Sets, CostGrows, CostType, LoadAssumption
  <2>4. Cost(Counted \cup Admitted) + Cost(Creating) <= Cap
    BY <1>1 DEF LInv, Fitting
  <2>5. Cost(Counted) <= Cap
    BY <2>3, <2>4
  <2> QED BY <2>1, <2>5 DEF LoadFits
<1> QED BY <1>1, LInvAlways, PTL

(* With no create and no pass under way nothing is reserved, however many  *)
(* of them failed or were cut short (Create's deferred release, and the    *)
(* hot restore's).                                                         *)
THEOREM ReservationsReturnAlways == Spec => []ReservationsReturn
<1>1. ASSUME LInv PROVE ReservationsReturn
  <2> SUFFICES ASSUME \A t \in Tables : creating[t] \in {"no", "done"}, pass.at = "idle"
               PROVE  reserved = 0
    BY DEF ReservationsReturn
  <2>1. Creating = {}
    BY DEF Creating
  <2>2. reserved = Cost({}) + pass.held /\ pass.held = 0
    BY <1>1, <2>1 DEF LInv, Booked
  <2>3. Cost({}) = 0
    BY CostUnfolds
  <2> QED BY <2>2, <2>3
<1> QED BY <1>1, LInvAlways, PTL
=============================================================================
