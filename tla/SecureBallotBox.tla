--------------------------- MODULE SecureBallotBox ---------------------------
(***************************************************************************)
(* SecureBallotBox (src/BallotBox/EncryptedBallotBox.cs) over three        *)
(* RocksDB stores: metadata, votes and tickets.                            *)
(*                                                                         *)
(* Every operation but Close runs inside lock(this), so one call at a time *)
(* reads or writes.  CastVote writes more than once, to two databases, and *)
(* is one step per Put; the others write at most one key that matters and  *)
(* are one step each.  Close takes no lock, and the process may end: both  *)
(* may stop CastVote between two Puts.                                     *)
(***************************************************************************)
EXTENDS Integers, Sequences, FiniteSets, SequencesExt

CONSTANTS Ticket,      \* ticket hashes
          ElectionOf,  \* ElectionOf[t]: the election written in the ticket
          Name,        \* what a preference can say
          Ballots,     \* the voteContent a caller can pass: sequences of names
          Protector,   \* the data protection providers a caller can pass
          Own,         \* the provider the box was created with
          Secret,      \* the content of the guardians' secret, a sequence
          Asked,       \* the numbers of guardians GetGuardianKeys is asked for
          MaxCalls     \* bound on the calls of CastVote

ASSUME BoxAssumption ==
  /\ Ballots \subseteq Seq(Name) \ {<<>>}  \* an empty one is refused first
  /\ Own \in Protector
  /\ Asked \subseteq Nat
  /\ MaxCalls \in Nat

VARIABLES
  isOpen,     \* the stores are open
  guardians,  \* NumOfGuardians in the metadata, 0 until keys were generated
  tickets,    \* the keys of TicketStore
  votes,      \* the records of VotesStore
  sealed,     \* Metadata_Tally is in the metadata
  call,       \* the CastVote inside lock(this)
  drawn,      \* the voteIds drawn so far
  answers     \* history: the counts that tallies have answered

vars == <<isOpen, guardians, tickets, votes, sealed, call, drawn, answers>>

-----------------------------------------------------------------------------
(* The guardians' keys: the secret is cut into slices of equal length, the *)
(* last of which takes the rest; each travels with its index.              *)

OverlappingSlice(n, i) ==  \* mutant: the last slice is cut like the others
  LET stride == Len(Secret) \div n
  IN SubSeq(Secret, (i - 1) * stride + 1, i * stride)

Slice(n, i) ==
  LET stride == Len(Secret) \div n
  IN SubSeq(Secret, (i - 1) * stride + 1,
            IF i = n THEN Len(Secret) ELSE i * stride)

Keys(n) == {[idx |-> i, text |-> Slice(n, i)] : i \in 1..n}

(* TestKeys: a key without text is rejected, the rest is put in its place  *)
(* and the whole is compared with the secret.                              *)
KeysOpen(n, K) ==
  /\ \A k \in K : k.text # <<>>
  /\ Secret = FlattenSeq([i \in 1..n |->
                IF \E k \in K : k.idx = i
                THEN (CHOOSE k \in K : k.idx = i).text ELSE <<>>])

-----------------------------------------------------------------------------
Elections == {ElectionOf[t] : t \in Ticket}

NoCall == [id |-> 0]

Call == [id: 1..MaxCalls, ticket: Ticket, ballot: Ballots, by: Protector,
         next: Nat]

Votes == [id: (1..MaxCalls) \X (Nat \ {0}), election: Elections, vote: Name,
          by: Protector]

Put(store, x) == {y \in store : y.id # x.id} \union {x}

(* One voteId is drawn for the call, before the loop over its preferences: *)
(* each Put of the loop replaces the one before.                           *)
VoteKey(c) == <<c.id, 1>>

VoteOf(c, i) == [id |-> VoteKey(c), election |-> ElectionOf[c.ticket],
                 vote |-> c.ballot[i], by |-> c.by]

TypeOK ==
  /\ isOpen \in BOOLEAN
  /\ guardians \in Asked \union {0}
  /\ tickets \subseteq Ticket
  /\ votes \subseteq Votes
  /\ sealed \in BOOLEAN
  /\ call \in Call \union {NoCall}
  /\ call # NoCall => call.next =< Len(call.ballot)
  /\ drawn \in 0..MaxCalls
  /\ answers \subseteq [Elections -> [Name -> Nat]]

Init ==
  /\ isOpen = TRUE
  /\ guardians = 0
  /\ tickets = {}
  /\ votes = {}
  /\ sealed = FALSE
  /\ call = NoCall
  /\ drawn = 0
  /\ answers = {}

Idle == isOpen /\ call = NoCall

(* The secret is created once: opening the stores again changes nothing    *)
(* that the operations read.                                               *)
CreateSecureBallotBox ==
  /\ ~isOpen
  /\ isOpen' = TRUE
  /\ UNCHANGED <<guardians, tickets, votes, sealed, call, drawn, answers>>

(* Keys for another number of guardians than the first are refused, and    *)
(* zero keys fail in the division by zero.  The quorum is stored and never *)
(* read.                                                                   *)
GetGuardianKeys(n) ==
  /\ Idle
  /\ guardians = 0
  /\ guardians' = n
  /\ UNCHANGED <<isOpen, tickets, votes, sealed, call, drawn, answers>>

(* CastVote: a tallied box and a used ticket return without a write ...    *)
CastUnsealed(t, b, p) ==  \* mutant: the tally mark is not looked at
  /\ Idle
  /\ drawn < MaxCalls
  /\ drawn' = drawn + 1
  /\ IF t \in tickets
     THEN UNCHANGED <<tickets, call>>
     ELSE /\ tickets' = tickets \union {t}
          /\ call' = [id |-> drawn + 1, ticket |-> t, ballot |-> b, by |-> p,
                      next |-> 1]
  /\ UNCHANGED <<isOpen, guardians, votes, sealed, answers>>

CastAgain(t, b, p) ==  \* mutant: a used ticket is not looked for
  /\ Idle
  /\ drawn < MaxCalls
  /\ drawn' = drawn + 1
  /\ IF sealed
     THEN UNCHANGED <<tickets, call>>
     ELSE /\ tickets' = tickets \union {t}
          /\ call' = [id |-> drawn + 1, ticket |-> t, ballot |-> b, by |-> p,
                      next |-> 1]
  /\ UNCHANGED <<isOpen, guardians, votes, sealed, answers>>

CastVote(t, b, p) ==
  /\ Idle
  /\ drawn < MaxCalls
  /\ drawn' = drawn + 1
  /\ IF sealed \/ t \in tickets
     THEN UNCHANGED <<tickets, call>>
     ELSE /\ tickets' = tickets \union {t}
          /\ call' = [id |-> drawn + 1, ticket |-> t, ballot |-> b, by |-> p,
                      next |-> 1]
  /\ UNCHANGED <<isOpen, guardians, votes, sealed, answers>>

(* ... and after the Put of the ticket there is one Put per preference.    *)
PutVoteOneMore ==  \* mutant: the loop runs one preference too far
  /\ isOpen
  /\ call # NoCall
  /\ votes' = Put(votes, VoteOf(call, call.next))
  /\ call' = IF call.next > Len(call.ballot) THEN NoCall
             ELSE [call EXCEPT !.next = @ + 1]
  /\ UNCHANGED <<isOpen, guardians, tickets, sealed, drawn, answers>>

PutVote ==
  /\ isOpen
  /\ call # NoCall
  /\ votes' = Put(votes, VoteOf(call, call.next))
  /\ call' = IF call.next = Len(call.ballot) THEN NoCall
             ELSE [call EXCEPT !.next = @ + 1]
  /\ UNCHANGED <<isOpen, guardians, tickets, sealed, drawn, answers>>

(* Tally: the keys first, then the mark that ends the casting, then the    *)
(* votes.  A vote that another provider protected fails the call, with the *)
(* mark in place.                                                          *)
CountOf(S) == [e \in Elections |-> [v \in Name |->
                Cardinality({x \in S : x.election = e /\ x.vote = v})]]

Counted == CountOf(votes)

Tally(K) ==
  /\ Idle
  /\ guardians # 0
  /\ KeysOpen(guardians, K)
  /\ sealed' = TRUE
  /\ answers' = IF \A x \in votes : x.by = Own THEN answers \union {Counted}
                ELSE answers
  /\ UNCHANGED <<isOpen, guardians, tickets, votes, call, drawn>>

(* Close, or the end of the process.                                       *)
Close ==
  /\ isOpen
  /\ isOpen' = FALSE
  /\ call' = NoCall
  /\ UNCHANGED <<guardians, tickets, votes, sealed, drawn, answers>>

Next == \/ CreateSecureBallotBox
        \/ \E n \in Asked : GetGuardianKeys(n)
        \/ \E t \in Ticket, b \in Ballots, p \in Protector : CastVote(t, b, p)
        \/ PutVote
        \/ \E K \in SUBSET Keys(guardians) : Tally(K)
        \/ Close

Spec == Init /\ [][Next]_vars

-----------------------------------------------------------------------------
(* The box is what IBallotBox promises: the call inside the lock has not   *)
(* taken place yet.  It takes place with its last Put, or when it is cut   *)
(* off, with what it has put until then.                                   *)
Settled == IF call = NoCall THEN tickets ELSE tickets \ {call.ticket}

SettledVotes == {x \in votes : x.id[1] # call.id}

Contract ==
  INSTANCE BallotBoxContract
    WITH spent <- Settled,
         count <- CountOf(SettledVotes),
         tallied <- sealed

(* Interrupted calls and stores closed and opened again included, the box  *)
(* implements the contract: a ticket brings one vote at the most, the last *)
(* preference of its ballot unless the call was cut off, none after a      *)
(* tally, and the tallies answer with the count of these votes.            *)
ContractHolds == Contract!BSpec

(* However often the guardians tally, with voters coming in between, they  *)
(* are told the same count.                                                *)
TalliesAgree == Cardinality(answers) =< 1

(* The keys of all the guardians together open the box, for every way to   *)
(* cut the secret, and no smaller set of them does.                        *)
AllGuardiansNeeded ==
  guardians # 0 => \A K \in SUBSET Keys(guardians) :
                     KeysOpen(guardians, K) <=> K = Keys(guardians)
=============================================================================
