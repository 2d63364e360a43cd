SPECIFICATION Spec
CONSTANTS
  user = user
  video = video
  preview = preview
  Subjects = {user, video, preview}
  Suffixes = {png, jpg}
  Once = {video}
  Videos = {video}
  VideoOf <- MCVideoOf
  Handlers = {h1, h2}
  None = None
  MaxUploads = 2
  MaxFailures = 1
SYMMETRY HandlerSymmetry
INVARIANTS RowNamesFile CalmFetchWhole BadAnswerHasCause
