-------------------------------- MODULE Wallet --------------------------------
(***************************************************************************)
(* A user's payment cards and the price of one personal subscription       *)
(* (UserPaymentCardsService, UserSubscriptionsService.create and update),  *)
(* edited by requests that overlap: nothing here runs in a transaction,    *)
(* and a request may die between two writes.  A price is an amount and a   *)
(* currency, two columns of which a request may send only one.             *)
(***************************************************************************)
EXTENDS Integers, FiniteSets

CONSTANTS Editors, Cards, Amounts, Currencies, NoPrice

PriceColumns == {"amount", "currency"}

Prices == [amount : Amounts, currency : Currencies]

ASSUME WalletAssumption == IsFiniteSet(Editors) /\ NoPrice \notin Prices

VARIABLES card,      \* user_payment_cards: "none" yet, "plain", "default" or "gone"
          price,     \* user_subscriptions: amount and currency, or NoPrice without a row
          history,   \* user_subscription_price_history: the prices on record
          edit,      \* progress of each request
          orphan,    \* first prices whose snapshot a dying creation did not write
          mixed      \* two changes of the row overlapped, one of which sends half a price

priceVars == <<price, history, orphan, mixed>>
walletVars == <<card, edit, priceVars>>
-----------------------------------------------------------------------------
NoEdit == [pc |-> "idle"]

Doing(e, pc) == edit[e].pc = pc

Finish(e) == edit' = [edit EXCEPT ![e] = NoEdit]

BeingCreated(c) ==
    \E e \in Editors : (Doing(e, "clearing") \/ Doing(e, "marking")) /\ edit[e].card = c /\ edit[e].new

WalletInit ==
    /\ card = [c \in Cards |-> "none"] /\ price = NoPrice /\ history = {}
    /\ orphan = {} /\ mixed = FALSE
    /\ edit = [e \in Editors |-> NoEdit]

\* setDefault, and create and update with isDefault; a card is created once.
StartDefault(e, c) ==
    /\ Doing(e, "idle") /\ card[c] # "gone" /\ ~BeingCreated(c)
    /\ edit' = [edit EXCEPT ![e] = [pc |-> "clearing", card |-> c, new |-> card[c] = "none"]]
    /\ UNCHANGED <<card, priceVars>>

\* clearDefaultForUser: every card but the one to be marked.
ClearDefault(e) ==
    /\ Doing(e, "clearing")
    /\ card' = [c \in Cards |-> IF card[c] = "default" /\ c # edit[e].card THEN "plain" ELSE card[c]]
    /\ edit' = [edit EXCEPT ![e].pc = "marking"]
    /\ UNCHANGED priceVars

\* The card is inserted, or updated if it is still there.
MarkDefault(e) ==
    /\ Doing(e, "marking")
    /\ card' = [card EXCEPT ![edit[e].card] = IF @ = "gone" THEN @ ELSE "default"]
    /\ Finish(e) /\ UNCHANGED priceVars

\* create and update without isDefault, update that takes the mark away, and remove, which
\* finds nothing the second time.
EditCard(c, to) ==
    /\ to = "gone" => card[c] # "none"
    /\ card[c] = "gone" => to = "gone"
    /\ ~BeingCreated(c)
    /\ card' = [card EXCEPT ![c] = to]
    /\ UNCHANGED <<edit, priceVars>>

-----------------------------------------------------------------------------
\* The repository's create: the row, then its first snapshot.  It is a row of its own, which
\* no request under way can mean.
InsertRow(e, new) ==
    /\ Doing(e, "idle") /\ price = NoPrice
    /\ \A f \in Editors : "price" \notin DOMAIN edit[f]
    /\ price' = new
    /\ edit' = [edit EXCEPT ![e] = [pc |-> "created", price |-> new, sent |-> PriceColumns]]
    /\ UNCHANGED <<card, history, orphan, mixed>>

RecordFirst(e) ==
    /\ Doing(e, "created") /\ price # NoPrice
    /\ history' = history \union {edit[e].price}
    /\ Finish(e) /\ UNCHANGED <<card, price, orphan, mixed>>

\* The columns of new where they are sent, of old elsewhere.
Merge(old, new, sent) ==
    [amount   |-> IF "amount" \in sent THEN new.amount ELSE old.amount,
     currency |-> IF "currency" \in sent THEN new.currency ELSE old.currency]

Repricing(f) == Doing(f, "recording") \/ Doing(f, "pricing")

\* A change of half a price meets another change of the row.
Mixes(sent) ==
    \E f \in Editors : Repricing(f) /\ (sent # PriceColumns \/ edit[f].sent # PriceColumns)

\* Mutant: a price of the same amount is taken for the same price.
StartPriceByAmount(e, new, sent) ==
    /\ Doing(e, "idle") /\ price # NoPrice
    /\ LET next == Merge(price, new, sent)
       IN  edit' = [edit EXCEPT ![e] =
                       [pc    |-> IF next.amount = price.amount THEN "pricing" ELSE "recording",
                        price |-> next, sent |-> sent]]
    /\ mixed' = (mixed \/ Mixes(sent))
    /\ UNCHANGED <<card, price, history, orphan>>

\* update: what is sent over what was just read; only a price that differs from the one
\* read is put on record.
StartPrice(e, new, sent) ==
    /\ Doing(e, "idle") /\ price # NoPrice
    /\ LET next == Merge(price, new, sent)
       IN  edit' = [edit EXCEPT ![e] = [pc    |-> IF next = price THEN "pricing" ELSE "recording",
                                        price |-> next, sent |-> sent]]
    /\ mixed' = (mixed \/ Mixes(sent))
    /\ UNCHANGED <<card, price, history, orphan>>

Record(e) ==
    /\ Doing(e, "recording") /\ price # NoPrice
    /\ history' = history \union {edit[e].price}
    /\ edit' = [edit EXCEPT ![e].pc = "pricing"]
    /\ UNCHANGED <<card, price, orphan, mixed>>

\* Only the columns that were sent are written, over what the row holds by now.
WritePrice(e) ==
    /\ Doing(e, "pricing") /\ price # NoPrice
    /\ price' = Merge(price, edit[e].price, edit[e].sent)
    /\ Finish(e) /\ UNCHANGED <<card, history, orphan, mixed>>

\* remove: the history goes with the row, and requests that meet neither fail.
RemoveSubscription ==
    /\ price # NoPrice
    /\ price' = NoPrice /\ history' = {} /\ orphan' = {} /\ mixed' = FALSE
    /\ UNCHANGED <<card, edit>>

\* A process dies, or a write is refused.  What it leaves of a creation is a row without
\* its first snapshot.
Die(e) ==
    /\ ~Doing(e, "idle")
    /\ orphan' = IF Doing(e, "created") /\ price # NoPrice THEN orphan \union {edit[e].price} ELSE orphan
    /\ Finish(e) /\ UNCHANGED <<card, price, history, mixed>>

CardsNext ==
    \/ \E e \in Editors : (\E c \in Cards : StartDefault(e, c)) \/ ClearDefault(e) \/ MarkDefault(e)
    \/ \E c \in Cards, to \in {"plain", "gone"} : EditCard(c, to)

PricesNext ==
    \/ \E e \in Editors, new \in Prices :
          \/ InsertRow(e, new)
          \/ \E sent \in (SUBSET PriceColumns) \ {{}} : StartPrice(e, new, sent)
    \/ \E e \in Editors : RecordFirst(e) \/ Record(e) \/ WritePrice(e)
    \/ RemoveSubscription

WalletNext == CardsNext \/ PricesNext \/ \E e \in Editors : Die(e)

WalletSpec == WalletInit /\ [][WalletNext]_walletVars
-----------------------------------------------------------------------------
\* clearDefaultForUser and the write that follows are apart, so that requests that overlap
\* can leave several default cards, but never more than there are such requests: the next
\* one clears whatever earlier ones have left.
DefaultsNearlyUnique == Cardinality({c \in Cards : card[c] = "default"}) <= Cardinality(Editors)

\* The prices on record, and those that a creation has yet to put there or died over.
Known ==
    history \union orphan \union
        {edit[e].price : e \in {f \in Editors : Doing(f, "created")}}

\* "only a change to amount and/or currency creates a snapshot", and the snapshot comes
\* first: whatever overlaps or dies in between, the amount and the currency in force are
\* each on record, and they are on record together unless a change of one of them alone
\* has met another change.
PriceOnRecord ==
    price # NoPrice =>
        /\ \E known \in Known : known.amount = price.amount
        /\ \E known \in Known : known.currency = price.currency
        /\ mixed \/ price \in Known

\* Whatever overlaps or dies in between, a wallet is off by no more than what is under way.
WalletIsKept == DefaultsNearlyUnique /\ PriceOnRecord
=============================================================================
