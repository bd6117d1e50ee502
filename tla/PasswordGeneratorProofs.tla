----------------------- MODULE PasswordGeneratorProofs -----------------------
(***************************************************************************)
(* For any classes and limits, generatePassword returns a password of the  *)
(* clamped length with exactly the chosen classes.                         *)
(***************************************************************************)
EXTENDS PasswordGenerator, FiniteSetTheorems, TLAPS

(* The classes in use are those of the characters picked and of those still *)
(* due, and what is due still fits.                                        *)
Progress ==
    /\ length \in MinLength..MaxLength
    /\ Used \cup required = active
    /\ Len(chars) + Cardinality(required) <= length
    /\ stage = "pick" \/ (required = {} /\ Len(chars) = length)
    /\ stage = "shuffle" => i <= Len(chars)

GeneratorInv == GeneratorTypeOK /\ Progress

-----------------------------------------------------------------------------

(* A subset of the classes is no larger than the shortest password.        *)
LEMMA FewClasses ==
    ASSUME NEW S, S \subseteq Class
    PROVE  IsFiniteSet(S) /\ Cardinality(S) \in Nat /\ Cardinality(S) <= MinLength
<1>1. IsFiniteSet(S) /\ Cardinality(S) <= Cardinality(Class)
  BY FS_Subset, GeneratorAssumption
<1>2. Cardinality(S) \in Nat /\ Cardinality(Class) \in Nat
  BY <1>1, FS_CardinalityType, GeneratorAssumption
<1>. QED  BY <1>1, <1>2, GeneratorAssumption

(* Appending a character adds its class to those used.                     *)
LEMMA AppendUses ==
    ASSUME NEW s \in Seq(Class), NEW c \in Class
    PROVE  LET t == Append(s, c) IN
        /\ t \in Seq(Class)
        /\ Len(t) = Len(s) + 1
        /\ {t[k] : k \in DOMAIN t} = {s[k] : k \in DOMAIN s} \cup {c}
<1>. DEFINE t == Append(s, c)
<1>1. t \in Seq(Class) /\ Len(t) = Len(s) + 1 /\ Len(s) \in Nat
  OBVIOUS
<1>2. DOMAIN s = 1..Len(s) /\ DOMAIN t = 1..(Len(s) + 1)
  BY <1>1
<1>3. t[Len(s) + 1] = c /\ \A k \in 1..Len(s) : t[k] = s[k]
  BY <1>1
<1>4. {t[k] : k \in 1..(Len(s) + 1)} = {s[k] : k \in 1..Len(s)} \cup {c}
  <2>1. ASSUME NEW k \in 1..(Len(s) + 1)
        PROVE  t[k] \in {s[m] : m \in 1..Len(s)} \cup {c}
    <3>1. k = Len(s) + 1 \/ k \in 1..Len(s)
      BY <1>1
    <3>. QED  BY <3>1, <1>3
  <2>2. ASSUME NEW m \in 1..Len(s)
        PROVE  s[m] \in {t[k] : k \in 1..(Len(s) + 1)}
    <3>1. m \in 1..(Len(s) + 1)
      BY <1>1
    <3>. QED  BY <3>1, <1>3
  <2>3. c \in {t[k] : k \in 1..(Len(s) + 1)}
    <3>1. Len(s) + 1 \in 1..(Len(s) + 1)
      BY <1>1
    <3>. QED  BY <3>1, <1>3
  <2>. QED  BY <2>1, <2>2, <2>3
<1>. QED  BY <1>1, <1>2, <1>4

(* A swap moves characters and changes none.                               *)
LEMMA SwapUses ==
    ASSUME GeneratorTypeOK, NEW j \in DOMAIN chars, i \in DOMAIN chars
    PROVE  /\ Swapped(j) \in Seq(Class)
           /\ Len(Swapped(j)) = Len(chars)
           /\ {Swapped(j)[k] : k \in DOMAIN Swapped(j)} = Used
<1>. DEFINE t == Swapped(j)
<1>0. chars \in Seq(Class)
  BY DEF GeneratorTypeOK
<1>1. /\ t \in Seq(Class) /\ Len(t) = Len(chars) /\ DOMAIN t = DOMAIN chars
      /\ \A k \in DOMAIN chars :
            t[k] = IF k = j THEN chars[i] ELSE IF k = i THEN chars[j] ELSE chars[k]
  BY <1>0 DEF Swapped
<1>2. ASSUME NEW k \in DOMAIN chars
      PROVE  t[k] \in Used
  BY <1>1 DEF Used
<1>3. ASSUME NEW k \in DOMAIN chars
      PROVE  chars[k] \in {t[m] : m \in DOMAIN chars}
  <2>1. CASE k = i
    BY <2>1, <1>1
  <2>2. CASE k = j
    <3>1. t[i] = chars[j]
      BY <1>1
    <3>. QED  BY <3>1, <2>2
  <2>3. CASE k # i /\ k # j
    BY <2>3, <1>1
  <2>. QED  BY <2>1, <2>2, <2>3
<1>4. {t[k] : k \in DOMAIN chars} = Used
  BY <1>2, <1>3 DEF Used
<1>. QED  BY <1>1, <1>4

-----------------------------------------------------------------------------

(* A request starts within the limits, with every chosen class due.        *)
LEMMA GeneratorStarts == GeneratorInit => GeneratorInv
<1>. SUFFICES ASSUME GeneratorInit PROVE GeneratorInv
  OBVIOUS
<1>1. PICK n \in Requested \cup {Unset}, included \in SUBSET Class :
        /\ length = ClampedLength(n)
        /\ active = ActiveClasses(included)
        /\ required = ActiveClasses(included)
        /\ chars = <<>> /\ i = 0 /\ stage = "pick"
  BY DEF GeneratorInit
<1>2. length \in Nat /\ length \in MinLength..MaxLength
  BY <1>1, GeneratorAssumption DEF ClampedLength
<1>3. active \subseteq Class /\ required = active
  BY <1>1 DEF ActiveClasses
<1>4. Used = {} /\ Len(chars) = 0 /\ chars \in Seq(Class)
  BY <1>1 DEF Used
<1>5. Cardinality(required) \in Nat /\ Cardinality(required) <= MinLength
  BY <1>3, FewClasses
<1>6. GeneratorTypeOK
  BY <1>1, <1>2, <1>3, <1>4 DEF GeneratorTypeOK
<1>7. Len(chars) + Cardinality(required) <= length
  BY <1>2, <1>4, <1>5, GeneratorAssumption
<1>. QED  BY <1>1, <1>2, <1>3, <1>4, <1>6, <1>7 DEF GeneratorInv, Progress

(* No step loses a class, brings in another or passes the length.          *)
LEMMA GeneratorKeeps == GeneratorInv /\ [GeneratorNext]_generatorVars => GeneratorInv'
<1>. SUFFICES ASSUME GeneratorInv, [GeneratorNext]_generatorVars PROVE GeneratorInv'
  OBVIOUS
<1>. USE DEF GeneratorInv
<1>a. chars \in Seq(Class) /\ Len(chars) \in Nat /\ DOMAIN chars = 1..Len(chars)
  BY DEF GeneratorTypeOK
<1>b. IsFiniteSet(required) /\ Cardinality(required) \in Nat
  BY FewClasses DEF GeneratorTypeOK
<1>1. ASSUME NEW c \in Class, PickRequired(c) PROVE GeneratorInv'
  <2>1. /\ chars' \in Seq(Class) /\ Len(chars') = Len(chars) + 1 /\ Used' = Used \cup {c}
    BY <1>1, <1>a, AppendUses DEF PickRequired, Used
  <2>2. Cardinality(required') = Cardinality(required) - 1
    BY <1>1, <1>b, FS_RemoveElement DEF PickRequired
  <2>3. GeneratorTypeOK'
    BY <1>1, <2>1 DEF PickRequired, GeneratorTypeOK
  <2>4. Used' \cup required' = active'
    BY <1>1, <2>1 DEF PickRequired, Progress
  <2>5. Len(chars') + Cardinality(required') <= length'
    BY <1>1, <1>a, <1>b, <2>1, <2>2 DEF PickRequired, Progress
  <2>. QED  BY <1>1, <2>3, <2>4, <2>5 DEF PickRequired, Progress
<1>2. ASSUME NEW c \in Class, PickAny(c) PROVE GeneratorInv'
  <2>1. /\ chars' \in Seq(Class) /\ Len(chars') = Len(chars) + 1 /\ Used' = Used \cup {c}
    BY <1>2, <1>a, AppendUses DEF PickAny, Used
  <2>2. required = {} /\ Cardinality(required') = 0
    BY <1>2, FS_EmptySet DEF PickAny
  <2>3. GeneratorTypeOK'
    BY <1>2, <2>1 DEF PickAny, GeneratorTypeOK
  <2>4. Used' \cup required' = active'
    BY <1>2, <2>1 DEF PickAny, Progress
  <2>5. Len(chars') + Cardinality(required') <= length'
    BY <1>2, <1>a, <2>1, <2>2 DEF PickAny, GeneratorTypeOK
  <2>. QED  BY <1>2, <2>3, <2>4, <2>5 DEF PickAny, Progress
<1>3. CASE StartShuffle
  <2>1. Used' = Used
    BY <1>3 DEF StartShuffle, Used
  <2>2. required = {} /\ Cardinality(required) = 0
    BY <1>3, FS_EmptySet DEF StartShuffle
  <2>3. Len(chars) = length
    BY <1>3, <1>a, <2>2 DEF StartShuffle, Progress, GeneratorTypeOK
  <2>4. GeneratorTypeOK'
    BY <1>3, <1>a DEF StartShuffle, GeneratorTypeOK
  <2>. QED  BY <1>3, <1>a, <2>1, <2>2, <2>3, <2>4 DEF StartShuffle, Progress
<1>4. ASSUME NEW j \in 1..i, Shuffle(j) PROVE GeneratorInv'
  <2>1. i \in Nat /\ i <= Len(chars) /\ i > 1
    BY <1>4 DEF Shuffle, Progress, GeneratorTypeOK
  <2>2. i \in DOMAIN chars /\ j \in DOMAIN chars
    BY <1>a, <2>1
  <2>3. chars' \in Seq(Class) /\ Len(chars') = Len(chars) /\ Used' = Used
    BY <1>4, <2>2, SwapUses DEF Shuffle, Used
  <2>4. GeneratorTypeOK'
    BY <1>4, <2>1, <2>3 DEF Shuffle, GeneratorTypeOK
  <2>5. stage' = "shuffle" /\ i' <= Len(chars')
    BY <1>4, <1>a, <2>1, <2>3 DEF Shuffle
  <2>. QED  BY <1>4, <2>3, <2>4, <2>5 DEF Shuffle, Progress
<1>5. CASE Return
  <2>1. Used' = Used
    BY <1>5 DEF Return, Used
  <2>2. GeneratorTypeOK'
    BY <1>5 DEF Return, GeneratorTypeOK
  <2>. QED  BY <1>5, <2>1, <2>2 DEF Return, Progress
<1>6. CASE UNCHANGED generatorVars
  <2>1. Used' = Used
    BY <1>6 DEF generatorVars, Used
  <2>2. GeneratorTypeOK'
    BY <1>6 DEF generatorVars, GeneratorTypeOK
  <2>. QED  BY <1>6, <2>1, <2>2 DEF generatorVars, Progress
<1>. QED  BY <1>1, <1>2, <1>3, <1>4, <1>5, <1>6 DEF GeneratorNext, Done

LEMMA GeneratorInvariant == GeneratorSpec => []GeneratorInv
<1>. QED  BY GeneratorStarts, GeneratorKeeps, PTL DEF GeneratorSpec

-----------------------------------------------------------------------------

(* Whatever the limits, the classes and the body, a returned password has  *)
(* the clamped length (accounts.service.ts, generatePassword).             *)
THEOREM LengthCorrect == GeneratorSpec => []LengthWithinLimits
<1>1. GeneratorInv => LengthWithinLimits
  BY DEF GeneratorInv, Progress, LengthWithinLimits
<1>. QED  BY <1>1, GeneratorInvariant, PTL

(* Whatever the limits, the classes and the body, a returned password has  *)
(* a character of each chosen class and no other                           *)
(* (accounts.service.ts, generatePassword).                                *)
THEOREM ClassesCorrect == GeneratorSpec => []ExactlyTheChosenClasses
<1>1. GeneratorInv => ExactlyTheChosenClasses
  BY DEF GeneratorInv, Progress, ExactlyTheChosenClasses
<1>. QED  BY <1>1, GeneratorInvariant, PTL

=============================================================================
