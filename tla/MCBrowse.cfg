SPECIFICATION Spec
CONSTANTS
  Ann = Ann  Bob = Bob  NoUser = NoUser  Users = {Ann, Bob}
  Delhi = Delhi  Kings = Kings  Cities <- TwoCities  Quoted = {Kings}
  Elsewhere = Elsewhere
  Rents = {1, 2}  NewRatings <- Drawn
  SampleProperties <- Samples
  MaxProperties = 4  MaxBookings = 2
SYMMETRY Symmetry
INVARIANTS
  TypeOK
  ListsWhatWasChosen
  BooksWhatWasOpened
  RatingsAreNearest
