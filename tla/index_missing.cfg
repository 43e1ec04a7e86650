SPECIFICATION Spec
CONSTANTS
  Threads = {t1}
  Sources = {s1}
  MaxLines = 2
  Hazards = {"live"}
PROPERTY MissingDetailIsNotFound
