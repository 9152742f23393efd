\* One reader (readers do not interact), a ring of two events, pages of two, and two faults.
SPECIFICATION LogSpec
CONSTANTS
  reader = reader
  MaxEvents = 2
  PageLimit = 2
  MaxSeq = 5
  MaxLogFaults = 2
  Readers = {reader}
INVARIANTS StreamComplete PagingComplete
PROPERTIES DeliveredInOrder
