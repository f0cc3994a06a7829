------------------------------ MODULE Versions ------------------------------
(***************************************************************************)
(* Software versions and their constraints (domain/device/version.go).  A  *)
(* parsed version is its three numbers and its prerelease, a sequence of   *)
(* identifiers, empty for a release; build metadata is never compared and  *)
(* left out.  An identifier is [number |-> n, zeros |-> z], z zeros before *)
(* n, when Atoi reads it, else [text |-> t] with t the place of the text   *)
(* in the order of strings.                                                *)
(***************************************************************************)
EXTENDS Integers, SequencesExt

CONSTANT Unset      \* a bound that is not given

compareInteger(left, right) ==
    IF left < right THEN -1 ELSE IF left > right THEN 1 ELSE 0

IsNumber(id) == "number" \in DOMAIN id

\* A number is below a text.
compareIdentifier(left, right) ==
    CASE IsNumber(left) /\ IsNumber(right)   -> compareInteger(left.number, right.number)
      [] IsNumber(left) /\ ~IsNumber(right)  -> -1
      [] ~IsNumber(left) /\ IsNumber(right)  -> 1
      [] ~IsNumber(left) /\ ~IsNumber(right) -> compareInteger(left.text, right.text)

\* The first place where two prereleases differ, or where one of them ends.
Differs(left, right) ==
    CHOOSE i \in 1..Len(left) + 1 :
        /\ i \in DOMAIN left /\ i \in DOMAIN right => compareIdentifier(left[i], right[i]) # 0
        /\ \A j \in 1..i - 1 : j \in DOMAIN right /\ compareIdentifier(left[j], right[j]) = 0

\* Slip: a release is taken for the shortest prerelease.
comparePlain(left, right) ==
    IF left = right THEN 0
    ELSE LET i == Differs(left, right)
         IN  CASE i > Len(left) /\ i > Len(right) -> 0
               [] i > Len(left) /\ i <= Len(right) -> -1
               [] i <= Len(left) /\ i > Len(right) -> 1
               [] OTHER -> compareIdentifier(left[i], right[i])

\* A release is above its prereleases, a longer prerelease above its beginnings.
comparePrerelease(left, right) ==
    CASE left = right                    -> 0
      [] left # right /\ left = <<>>     -> 1
      [] left # right /\ right = <<>>    -> -1
      [] OTHER ->
            LET i == Differs(left, right)
            IN  CASE i > Len(left) /\ i > Len(right) -> 0
                  [] i > Len(left) /\ i <= Len(right) -> -1
                  [] i <= Len(left) /\ i > Len(right) -> 1
                  [] OTHER -> compareIdentifier(left[i], right[i])

Compare(v, w) ==
    LET d == {i \in 1..3 : v.core[i] # w.core[i]}
        i == CHOOSE i \in d : \A j \in d : i <= j
    IN  IF d # {} THEN compareInteger(v.core[i], w.core[i])
        ELSE comparePrerelease(v.prerelease, w.prerelease)

\* A component that is missing is 0.
ParseSemanticVersion(numbers, prerelease) ==
    [core |-> [i \in 1..3 |-> IF i <= Len(numbers) THEN numbers[i] ELSE 0],
     prerelease |-> prerelease]

ParseVersionConstraint(minimum, maximum) ==
    IF minimum # Unset /\ maximum # Unset /\ Compare(minimum, maximum) > 0 THEN Unset
    ELSE [minimum |-> minimum, maximum |-> maximum]

Match(c, v) ==
    /\ c.minimum # Unset => Compare(v, c.minimum) >= 0
    /\ c.maximum # Unset => Compare(v, c.maximum) <= 0

-----------------------------------------------------------------------------
(* What is asked of them, for inputs x.                                    *)

\* Versions are totally ordered, but for zeros before a number; a prerelease is
\* below its release, and above every release below that; a constraint matches
\* its bounds and all between them, and one that matches anything has them in
\* order.
OrderHolds(x) ==
    LET c == ParseVersionConstraint(x.u, x.w)
        final(v) == [v EXCEPT !.prerelease = <<>>]
    IN  /\ Compare(x.u, x.v) = -Compare(x.v, x.u)
        /\ Compare(x.u, x.u) = 0
        /\ Compare(x.u, x.v) = 0 => Compare(x.u, x.w) = Compare(x.v, x.w)
        /\ Compare(x.u, x.v) <= 0 /\ Compare(x.v, x.w) <= 0
              => c # Unset /\ Match(c, x.u) /\ Match(c, x.v) /\ Match(c, x.w)
        /\ c # Unset /\ Match(c, x.v) => Compare(x.u, x.w) <= 0
        /\ x.u.prerelease # <<>> =>
              /\ Compare(x.u, final(x.u)) < 0
              /\ Compare(final(x.v), final(x.u)) < 0 => Compare(final(x.v), x.u) < 0

=============================================================================
