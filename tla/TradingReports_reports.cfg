\* Two order calls, listings to the screen and to a file, news at any time.
CONSTANTS r1 = r1  r2 = r2  o1 = o1  o2 = o2
          Requests = {r1, r2}
          Orders = {o1, o2}
          RequestOf <- MCRequestOf
          Elsewhere = Elsewhere
          Listing = Listing
          Torn = Torn
          Files = {f1}
          NoFile = NoFile
          Rows = {p1, p2}
          Header = Header
          MaxRows = 2
SPECIFICATION Spec
INVARIANTS TypeOK DeletionAfterAddition ListingDelivered
PROPERTY OutcomeTold
