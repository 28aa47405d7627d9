---------------------------- MODULE MCBlockContents ----------------------------
\* Chains of two blocks for TLC, each with one difficulty.
EXTENDS BlockContents

Value(word, n) == [word |-> word, n |-> n]
Attr(key, word, n) == [key |-> key, value |-> Value(word, n)]
Event(type, attrs) == [type |-> type, attrs |-> attrs]

Msg(type, signer, events) ==
  [type |-> type, decodes |-> TRUE, valid |-> TRUE, signer |-> signer, events |-> events]

Tx(hash, code, msgs) ==
  [hash |-> hash, code |-> code, logs |-> TRUE, msgs |-> msgs, infoSigners |-> <<>>,
   payer |-> None, fee |-> 3, tip |-> None]

Send == Msg("send", "alice",
  <<Event("coin_received", <<Attr("receiver", "bob", 0), Attr("amount", "coin", 7)>>),
    Event("transfer", <<Attr("sender", "alice", 0)>>)>>)

Delegate == Msg("delegate", "alice",
  <<Event("coin_spent", <<Attr("spender", "alice", 0)>>),
    Event("coin_received", <<Attr("amount", "coin", 5)>>),
    Event("delegate", <<Attr("validator", "val", 0)>>)>>)

Undelegate == [Delegate EXCEPT !.type = "undelegate", !.signer = "bob"]

Vote(voter, option, options, proposal, id) == Msg("vote", voter,
  <<Event("proposal_vote", <<Attr("voter", voter, 0), Attr("option", option, options),
                             Attr("proposal_id", proposal, id)>>)>>)

Submit == Msg("submit", "bob",
  <<Event("submit_proposal", <<Attr("proposal_id", "one", 1)>>),
    Event("deposit", <<Attr("sender", "bob", 0), Attr("amount", "coin", 9)>>)>>)

Unknown == [Send EXCEPT !.decodes = FALSE]

Block(txs, signers, events) == [txs |-> txs, signers |-> signers, events |-> events]

\* The second block has no event data: a parser has panicked.
TwoMessages ==
  <<Block(<<[Tx("t1", 0, <<Send, Delegate>>) EXCEPT !.tip = "tipper"]>>, <<"v1", "v2">>,
          <<"transfer", "mint">>),
    Block(<<[Tx("t2", 0, <<Undelegate>>) EXCEPT !.logs = FALSE]>>, <<"v1">>, <<"proposer">>)>>

SentAgain ==
  <<Block(<<Tx("t1", 5, <<Send>>)>>, <<"v1">>, <<>>),
    Block(<<Tx("t1", 0, <<Send>>)>>, <<"v1", "v2">>, <<>>)>>

\* One transaction has two votes of two voters.
Votes2 ==
  <<Block(<<Tx("t1", 0, <<Vote("alice", "yes", 1, "one", 1)>>),
            [Tx("t2", 0, <<Vote("alice", "yes", 1, "two", 2), Vote("bob", "no", 1, "one", 1), Submit>>)
               EXCEPT !.payer = "bob"]>>, <<"v1">>, <<"burn", "mint">>),
    Block(<<>>, <<"v2">>, <<>>)>>

\* The one event of the first block has more parsers than the block has events.
WeightedVote ==
  <<Block(<<Tx("t1", 0, <<Vote("alice", "yes", 2, "one", 1)>>)>>, <<"v1">>, <<"proposer">>),
    Block(<<[Tx("t2", 0, <<Unknown, Delegate>>) EXCEPT !.fee = 0]>>, <<"v1">>,
          <<"mint", "proposer", "burn", "transfer", "mint">>)>>

\* Read with nested queries while its one transaction is written.  Its events make a
\* parser panic, so the DB worker gets none.
Delegation ==
  <<Block(<<Tx("t1", 0, <<Delegate>>)>>, <<"v1">>, <<"proposer">>),
    Block(<<>>, <<"v1">>, <<"proposer">>)>>

MCChains == {TwoMessages, SentAgain, Votes2, WeightedVote, Delegation}
MCMigrationFrom == [c \in Chains |-> IF c = SentAgain THEN {4} ELSE {6}]
MCServed == {Delegation}
MCTypeFilters ==
  [c \in Chains |-> IF c = TwoMessages THEN {{}, {"delegate", "vote"}} ELSE {{}}]
MCMaxPasses == [c \in Chains |-> IF c \in {Votes2, Delegation} THEN 1 ELSE 2]
MCMaxCrashes == [c \in Chains |-> IF c = TwoMessages THEN 1 ELSE 0]
MCSingles == <<[matches |-> {"mint", "burn"}, include |-> TRUE],
               [matches |-> {"burn"}, include |-> FALSE]>>
MCWindows == <<[patterns |-> <<{"mint"}, {"proposer"}>>, include |-> TRUE]>>
MCParsers == [type \in {"mint", "burn", "proposer"} |-> IF type = "proposer" THEN 2 ELSE 1]
MCAccounts == {"alice", "bob"}

\* The other days, at the times -2 and 4.  Without any a fresh database has no total,
\* and there the process never starts.
MCOtherDays == [d \in {-1, 2} |-> [fees |-> 4, txs |-> 2, wallets |-> 1]]

\* With a year of four blocks: all of the first chain is of this year and its second
\* block of this month; the first block of the second chain is older than a year.
MCClock ==
  [c \in Chains |-> IF c = TwoMessages THEN 4 ELSE IF c = SentAgain THEN 6 ELSE 2]

MCTextOrder == <<"alice", "bob", "coin", "no", "one", "two", "val", "yes">>
================================================================================
