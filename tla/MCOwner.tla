------------------------------ MODULE MCOwner ------------------------------
(***************************************************************************)
(* What the owner of a business does with it: pays for its subscription,   *)
(* uses discount codes, announces closures, keeps the notebook and puts up *)
(* images.  The five share no state here: a behaviour is one of the part   *)
(* drawn at the start, and the others stand still.                         *)
(***************************************************************************)
EXTENDS MCBilling, Discounts, Closures, Notebook, Images

VARIABLE part

OwnerParts == <<part, vars, discountVars, closureVars, notebookVars, imageVars>>

OwnerInit ==
  /\ part \in {"billing", "discounts", "closures", "notebook", "images"}
  /\ Init /\ DiscountInit /\ ClosureInit /\ NotebookInit /\ ImagesInit

OwnerNext ==
  \/ /\ part = "billing" /\ Next
     /\ UNCHANGED <<part, discountVars, closureVars, notebookVars, imageVars>>
  \/ /\ part = "discounts" /\ DiscountNext
     /\ UNCHANGED <<part, vars, closureVars, notebookVars, imageVars>>
  \/ /\ part = "closures" /\ ClosureNext
     /\ UNCHANGED <<part, vars, discountVars, notebookVars, imageVars>>
  \/ /\ part = "notebook" /\ NotebookNext
     /\ UNCHANGED <<part, vars, discountVars, closureVars, imageVars>>
  \/ /\ part = "images" /\ ImagesNext
     /\ UNCHANGED <<part, vars, discountVars, closureVars, notebookVars>>

OwnerSpec == OwnerInit /\ [][OwnerNext]_OwnerParts

\* What is stored has the type the code gives it (subscriptions and payments;
\* discount_codes, metadata.pendingDiscount; business_closures;
\* revenue_columns, daily_entries; galleryImages).
OwnerTypeOK ==
  /\ part = "billing" => TypeOK
  /\ part = "discounts" => DiscountTypeOK
  /\ part = "closures" => ClosureTypeOK
  /\ part = "notebook" => NotebookTypeOK
  /\ part = "images" => ImagesTypeOK
=============================================================================
