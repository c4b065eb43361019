------------------------------- MODULE Targets ------------------------------
(***************************************************************************)
(* ExpandTargets: the hosts a deployment is for, from what an operator     *)
(* types or a recommendation proposes.                                     *)
(*                                                                         *)
(* A specification is a sequence of tokens.  A host is a text: the text    *)
(* that an address <<v4, n>>, IPv4 or IPv6, is printed as, or any other,   *)
(* a host name or a different spelling of an address.  Addresses are Width *)
(* bits wide and the last octet has Octet values; the code has 32 (or      *)
(* 128), 256, and MaxTargets = 1024.                                       *)
(***************************************************************************)
EXTENDS Integers, Sequences, FiniteSets, FiniteSetsExt, SequencesExt

CONSTANTS
    Width, Octet, MaxTargets, Error,
    Names    \* texts without slash and hyphen that no address is printed as

(* Powers of two, as a function: the sizes of the blocks.                   *)
Pow2[k \in 0..Width] == IF k = 0 THEN 1 ELSE 2 * Pow2[k - 1]

Addresses == 0..(Pow2[Width] - 1)
Printed == BOOLEAN \X Addresses
Texts == Printed \cup Names

\* The addresses are whole octets.
ASSUME WidthAssumption ==
    /\ Width \in Nat \ {0} /\ MaxTargets \in Nat \ {0}
    /\ Octet \in Nat \ {0} /\ Pow2[Width] % Octet = 0
ASSUME ErrorAssumption == Error \notin Seq(Texts)

Host(text) == [kind |-> "host", text |-> text]
Cidr(v4, n, bits) == [kind |-> "cidr", v4 |-> v4, lo |-> n, bits |-> bits]
Dashed(v4, lo, hi) == [kind |-> "range", v4 |-> v4, lo |-> lo, hi |-> hi]
\* With trail, text follows the number: "10.0.0.5-7x", "10.0.0.1-20-30".
Short(v4, lo, last, trail) ==
    [kind |-> "short", v4 |-> v4, lo |-> lo, last |-> last, trail |-> trail]
\* A host name with a hyphen.
Hyphened == [kind |-> "hyphened"]
\* A slash or a hyphen, and what stands before or after it does not parse.
Bad == [kind |-> "bad"]

Tokens ==
    [kind : {"host"}, text : Texts]
    \cup [kind : {"cidr"}, v4 : BOOLEAN, lo : Addresses, bits : 0..Width]
    \cup [kind : {"range"}, v4 : BOOLEAN, lo : Addresses, hi : Addresses]
    \cup [kind : {"short"}, v4 : BOOLEAN, lo : Addresses, last : Int, trail : BOOLEAN]
    \cup {Hyphened, Bad}

-----------------------------------------------------------------------------
(* The addresses from lo to hi; Error for more than limit.                  *)
Walk(v4, lo, hi, limit) ==
    IF hi - lo + 1 > limit THEN Error ELSE [i \in 1..(hi - lo + 1) |-> <<v4, lo + i - 1>>]

(* Mutant: the block is taken from the address written, not masked.         *)
expandCIDRUnmasked(tok) ==
    LET size == Pow2[Width - tok.bits]
        dropEnds == tok.v4 /\ tok.bits <= Width - 2
    IN IF dropEnds THEN Walk(tok.v4, tok.lo + 1, tok.lo + size - 2, MaxTargets)
       ELSE Walk(tok.v4, tok.lo, tok.lo + size - 1, MaxTargets)

(* The block a prefix covers, without the network and broadcast addresses   *)
(* of a larger IPv4 block.                                                  *)
expandCIDR(tok) ==
    LET size == Pow2[Width - tok.bits]
        first == (tok.lo \div size) * size
        dropEnds == tok.v4 /\ tok.bits <= Width - 2
    IN IF dropEnds THEN Walk(tok.v4, first + 1, first + size - 2, MaxTargets)
       ELSE Walk(tok.v4, first, first + size - 1, MaxTargets)

(* The limit is looked at after the end: one address more than MaxTargets   *)
(* passes here.  The short form replaces the last octet of the start; the   *)
(* number is scanned, so what follows it makes no difference.               *)
expandRange(tok) ==
    LET hi == IF tok.kind = "range" THEN tok.hi ELSE (tok.lo - (tok.lo % Octet)) + tok.last
    IN IF tok.kind = "short" /\ (~tok.v4 \/ tok.last \notin 0..(Octet - 1)) THEN Error
       ELSE IF hi < tok.lo THEN Error
       ELSE Walk(tok.v4, tok.lo, hi, MaxTargets + 1)

(* Host names are not told from ranges: a hyphen alone decides, and the     *)
(* part before it is to be an address.  Other texts are taken as they are.  *)
Expanded(tok) ==
    CASE tok.kind = "host" -> <<tok.text>>
      [] tok.kind = "cidr" -> expandCIDR(tok)
      [] tok.kind \in {"range", "short"} -> expandRange(tok)
      [] OTHER -> Error

(* add: a text that is new, up to the limit.                                *)
add(out, h) ==
    IF out = Error THEN Error
    ELSE IF h \in Range(out) THEN out
    ELSE IF Len(out) = MaxTargets THEN Error
    ELSE Append(out, h)

addAll(out, hosts) ==
    LET done[i \in 0..Len(hosts)] ==
            IF i = 0 THEN out ELSE add(done[i - 1], hosts[i])
    IN done[Len(hosts)]

token(out, tok) ==
    IF out = Error \/ Expanded(tok) = Error THEN Error ELSE addAll(out, Expanded(tok))

ExpandTargets(spec) ==
    LET done[i \in 0..Len(spec)] ==
            IF i = 0 THEN <<>> ELSE token(done[i - 1], spec[i])
        out == done[Len(spec)]
    IN IF out = <<>> THEN Error ELSE out

-----------------------------------------------------------------------------
(* What a specification means, by membership.                               *)

\* The forms that are documented.
Valid(tok) ==
    CASE tok.kind \in {"host", "cidr", "hyphened"} -> TRUE
      [] tok.kind = "range" -> tok.lo <= tok.hi
      [] tok.kind = "short" -> /\ tok.v4 /\ ~tok.trail
                               /\ tok.lo % Octet <= tok.last /\ tok.last < Octet
      [] OTHER -> FALSE

\* Two forms are treated otherwise: a host name with a hyphen is refused,
\* though hostnames are documented, and text after the number of a short range
\* is passed over, though no such form is.
Taken(tok) ==
    /\ tok # Hyphened
    /\ IF tok.kind = "short" THEN Valid([tok EXCEPT !.trail = FALSE]) ELSE Valid(tok)

\* An address is one of a block or range.
Covers(tok, n) ==
    LET prefix(m) == m \div Pow2[Width - tok.bits] IN
    CASE tok.kind = "cidr" ->
            /\ prefix(n) = prefix(tok.lo)
            /\ tok.v4 /\ Pow2[Width - tok.bits] >= 4 =>
                \* not the ends of the block
                \A m \in {n - 1, n + 1} : m \in Addresses /\ prefix(m) = prefix(n)
      [] tok.kind = "range" -> tok.lo <= n /\ n <= tok.hi
      [] tok.kind = "short" -> tok.lo <= n /\ n \div Octet = tok.lo \div Octet
                               /\ n % Octet <= tok.last

\* A host is the text it was written as: two spellings of one address are two.
Denotes(tok, h) ==
    IF tok.kind = "host" THEN h = tok.text
    ELSE h \in Printed /\ h[1] = tok.v4 /\ Covers(tok, h[2])

Spelled(spec) == {spec[i].text : i \in {j \in DOMAIN spec : spec[j].kind = "host"}}
Denoted(spec) ==
    {h \in Printed \cup Spelled(spec) : \E i \in DOMAIN spec : Denotes(spec[i], h)}

(* Every host that is denoted, once, or none at all.                        *)
Exact(spec) ==
    LET out == ExpandTargets(spec) IN
    IF (\A i \in DOMAIN spec : Taken(spec[i])) /\ Cardinality(Denoted(spec)) \in 1..MaxTargets
    THEN out # Error /\ Range(out) = Denoted(spec) /\ IsInjective(out)
    ELSE out = Error
=============================================================================
