--------------------------- MODULE MCTravellers ----------------------------
(***************************************************************************)
(* What travellers do with each other, with providers and with the         *)
(* assistant: components that share no state are explored side by side,    *)
(* `part` being the one that runs.  The others rest in one of their        *)
(* initial states.                                                         *)
(***************************************************************************)
EXTENDS CompanionPlan, Chat, Knowledge, Assistant, Experiences, TravelOffers, FieldNotes, Listings,
  MembershipPeriods

CONSTANTS
  Parts,
  ann, bob,       \* travellers
  uma, vic, send1, \* chat
  d1, w1          \* an administrator's request and a worker

\* What the smaller instances below take of the constants.
ASSUME TravellersAssumption ==
  /\ Parts \subseteq {"plans", "invites", "chat", "page", "knowledge", "deciders", "assistant",
                     "experiences", "offers", "notes", "lists", "periods"}
  /\ ann \in Users /\ 2 \in Sizes
  /\ uma \in People /\ send1 \in Sends
  /\ d1 \in Desks /\ w1 \in Workers

VARIABLE part

TheFoes == {<<ann, bob>>}

TheChatFoes == {<<uma, vic>>}

\* A small party, and one traveller may be invited to the itinerary as well.
Guest == INSTANCE CompanionPlan WITH Sizes <- {2}, Foes <- {}, Invited <- {ann}

\* One request at a time, and a chat page that comes and goes.
Pages == INSTANCE Chat WITH Watchers <- {uma}, Sends <- {send1}

\* Two administrators with one delivery at a time and no fault, or one with two
\* deliveries and faults.
OnDuty(p) ==
  IF p = "deciders" THEN faults' = 0 /\ \A w \in Workers \ {w1} : work'[w] = NotWorking
                    ELSE \A d \in Desks \ {d1} : desks'[d] = NoDecision

----------------------------------------------------------------------------
TravellersInit ==
  /\ part \in Parts
  /\ IF part = "invites" THEN Guest!Init ELSE Init /\ (part # "plans" => itinerary = None)
  /\ IF part = "page" THEN Pages!ChatInit ELSE ChatInit /\ (part # "chat" => chatKind = "none")
  /\ KnowledgeInit /\ (part \notin {"knowledge", "deciders"} => kind = "post")
  /\ AssistantInit /\ (part # "assistant" => memberUntil = 0)
  /\ ExperiencesInit
  /\ OffersInit /\ (part # "offers" => \A j \in Journeys : market[j].price = 1)
  /\ NotesInit
  /\ ListingsInit /\ (part # "lists" => list = "posts")
  /\ PeriodsInit

companionVars == vars

\* The components other than the one that runs.
Rest(p) ==
  /\ IF p \in {"plans", "invites"} THEN TRUE ELSE UNCHANGED companionVars
  /\ IF p \in {"chat", "page"} THEN TRUE ELSE UNCHANGED chatVars
  /\ IF p \in {"knowledge", "deciders"} THEN OnDuty(p) ELSE UNCHANGED knowledgeVars
  /\ IF p = "assistant" THEN TRUE ELSE UNCHANGED assistantVars
  /\ IF p = "experiences" THEN TRUE ELSE UNCHANGED experienceVars
  /\ IF p = "offers" THEN TRUE ELSE UNCHANGED offerVars
  /\ IF p = "notes" THEN TRUE ELSE UNCHANGED noteVars
  /\ IF p = "lists" THEN TRUE ELSE UNCHANGED listingVars
  /\ IF p = "periods" THEN TRUE ELSE UNCHANGED periodVars
  /\ UNCHANGED part

Step ==
  \/ part = "plans" /\ Next /\ Rest("plans")
  \/ part = "invites" /\ Guest!Next /\ Rest("invites")
  \/ part = "chat" /\ ChatNext /\ Rest("chat")
  \/ part = "page" /\ Pages!ChatNext /\ Rest("page")
  \/ part \in {"knowledge", "deciders"} /\ KnowledgeNext /\ Rest(part)
  \/ part = "assistant" /\ AssistantNext /\ Rest("assistant")
  \/ part = "experiences" /\ ExperiencesNext /\ Rest("experiences")
  \/ part = "offers" /\ OffersNext /\ Rest("offers")
  \/ part = "notes" /\ NotesNext /\ Rest("notes")
  \/ part = "lists" /\ ListingsNext /\ Rest("lists")
  \/ part = "periods" /\ PeriodsNext /\ Rest("periods")

everything ==
  <<part, companionVars, chatVars, knowledgeVars, assistantVars, experienceVars, offerVars,
    noteVars, listingVars, periodVars>>

Travellers == TravellersInit /\ [][Step]_everything

----------------------------------------------------------------------------
\* Every variable of every component keeps its type.
TravellersTypeOK ==
  CASE part = "plans" -> TypeOK
    [] part = "invites" -> Guest!TypeOK
    [] part = "chat" -> ChatTypeOK
    [] part = "page" -> Pages!ChatTypeOK
    [] part \in {"knowledge", "deciders"} -> KnowledgeTypeOK
    [] part = "assistant" -> AssistantTypeOK
    [] part = "experiences" -> ExperiencesTypeOK
    [] part = "offers" -> OffersTypeOK
    [] part = "notes" -> NotesTypeOK
    [] part = "lists" -> ListingsTypeOK
    [] part = "periods" -> PeriodsTypeOK
=============================================================================
