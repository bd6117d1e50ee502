-------------------------- MODULE PasswordGenerator --------------------------
(***************************************************************************)
(* AccountsService.generatePassword: one character of every chosen class,  *)
(* random ones up to the length, then a Fisher-Yates shuffle.  A character *)
(* is modelled by its class, a random number by a choice.  The handler     *)
(* runs without an await, so no two generations interleave.                *)
(***************************************************************************)
EXTENDS Integers, Sequences, FiniteSets

CONSTANTS
    Class,          \* the character classes (four in the code)
    MinLength,      \* 8 in the code
    MaxLength,      \* 64
    DefaultLength,  \* 16
    Requested,      \* the lengths a body asks for
    Unset           \* no length in the body

ASSUME GeneratorAssumption ==
    /\ IsFiniteSet(Class) /\ Class # {}
    /\ MinLength \in Nat /\ MaxLength \in Nat /\ DefaultLength \in Nat
    /\ Cardinality(Class) <= MinLength
    /\ MinLength <= MaxLength
    /\ Requested \subseteq Int
    /\ Unset \notin Int

VARIABLES
    length,    \* the clamped length
    active,    \* the classes in use
    required,  \* the ones that still lack their character
    chars,     \* the characters so far
    i,         \* the index of the shuffle, 1-based
    stage

generatorVars == <<length, active, required, chars, i, stage>>

(* Faulty variant: only the upper bound is applied. *)
CappedLength(n) ==
    LET asked == IF n = Unset THEN DefaultLength ELSE n IN
        IF asked > MaxLength THEN MaxLength ELSE asked

(* Math.min(Math.max(length ?? 16, 8), 64) *)
ClampedLength(n) ==
    LET asked == IF n = Unset THEN DefaultLength ELSE n IN
        IF asked < MinLength THEN MinLength
        ELSE IF asked > MaxLength THEN MaxLength ELSE asked

(* With every class switched off all of them are used. *)
ActiveClasses(included) == IF included = {} THEN Class ELSE included

GeneratorInit ==
    \E n \in Requested \cup {Unset}, included \in SUBSET Class :
        /\ length = ClampedLength(n)
        /\ active = ActiveClasses(included)
        /\ required = ActiveClasses(included)
        /\ chars = <<>>
        /\ i = 0
        /\ stage = "pick"

(* One character of each active class. *)
PickRequired(c) ==
    /\ stage = "pick"
    /\ c \in required
    /\ chars' = Append(chars, c)
    /\ required' = required \ {c}
    /\ UNCHANGED <<length, active, i, stage>>

(* The remaining ones, from all active classes together. *)
PickAny(c) ==
    /\ stage = "pick"
    /\ required = {}
    /\ Len(chars) < length
    /\ c \in active
    /\ chars' = Append(chars, c)
    /\ UNCHANGED <<length, active, required, i, stage>>

StartShuffle ==
    /\ stage = "pick"
    /\ required = {}
    /\ Len(chars) >= length
    /\ i' = Len(chars)
    /\ stage' = "shuffle"
    /\ UNCHANGED <<length, active, required, chars>>

(* Faulty variant: a copy instead of a swap. *)
Copied(j) == [chars EXCEPT ![i] = chars[j]]

Swapped(j) == [chars EXCEPT ![i] = chars[j], ![j] = chars[i]]

(* j = randomInt(i + 1), 0-based. *)
Shuffle(j) ==
    /\ stage = "shuffle"
    /\ i > 1
    /\ j \in 1..i
    /\ chars' = Swapped(j)
    /\ i' = i - 1
    /\ UNCHANGED <<length, active, required, stage>>

Return ==
    /\ stage = "shuffle"
    /\ i <= 1
    /\ stage' = "done"
    /\ UNCHANGED <<length, active, required, chars, i>>

(* The request has been answered. *)
Done == stage = "done" /\ UNCHANGED generatorVars

GeneratorNext ==
    \/ \E c \in Class : PickRequired(c) \/ PickAny(c)
    \/ StartShuffle
    \/ \E j \in 1..i : Shuffle(j)
    \/ Return
    \/ Done

GeneratorSpec == GeneratorInit /\ [][GeneratorNext]_generatorVars

-----------------------------------------------------------------------------

GeneratorTypeOK ==
    /\ length \in Nat
    /\ active \subseteq Class
    /\ required \subseteq Class
    /\ chars \in Seq(Class)
    /\ i \in Nat
    /\ stage \in {"pick", "shuffle", "done"}

Used == {chars[k] : k \in DOMAIN chars}

(* A returned password has the length that was asked for, within the       *)
(* limits, even when the classes alone would fill it                       *)
(* (accounts.service.ts, generatePassword: the clamp and the fill).        *)
LengthWithinLimits ==
    stage = "done" => Len(chars) = length /\ length \in MinLength..MaxLength

(* A returned password has a character of every chosen class and none of   *)
(* another, wherever the shuffle has put them (accounts.service.ts,        *)
(* generatePassword: required, remaining and the shuffle).                 *)
ExactlyTheChosenClasses == stage = "done" => Used = active

=============================================================================
